---- MODULE Spec2Model ----
(***************************************************************************)
(* A model of pdf-extract (src/src/lib.rs): the font subsystem's           *)
(* character iteration (PdfFont::next_char for the three font kinds), the  *)
(* content-stream interpreter (Processor::process_stream, show_text), the  *)
(* page driver (output_doc, output_doc_inner) and the plain-text device    *)
(* (PlainTextOutput).                                                      *)
(*                                                                         *)
(* Numbers.  f64 quantities are modelled as integers: lengths (matrix      *)
(* translations, spacings, glyph advances) are counted in 1/1000 of a      *)
(* unit, the linear part of a matrix, the horizontal scaling and the font  *)
(* size are whole numbers.  Rounding of f64 arithmetic is not modelled.    *)
(***************************************************************************)
EXTENDS Integers, Sequences, FiniteSets, TLC

VARIABLES
    font,       \* the font whose next_char is being driven
    bytes,      \* the byte string the cursor runs over
    pos,        \* number of bytes the cursor (Iter<u8>) has consumed
    ret,        \* what the last next_char call returned
    prev,       \* cursor position before the last next_char call
    sum,        \* sum of the bytes_consumed values returned so far
    calls,      \* number of next_char calls made
    pc,         \* where output_doc is: "doc", "ops", "array", "show", "done", "err", "off"
    page,       \* index of the page output_doc is at
    npages,     \* number of pages of the document
    fail_at,    \* the device call that returns Err (0: the device never fails)
    frames,     \* the active process_stream calls, the innermost last
    cur,        \* the TJ array and the show_text string being worked through
    events,     \* the calls the output device has received, in order
    nops,       \* number of operators interpreted so far
    lastOp,     \* the operator (or step) interpreted last
    hist,       \* per frame: the values gs had at each q not yet matched by a Q
    obs,        \* what was observed at the last Q and the last text step
    decoded,    \* PdfFont::decode: the result so far and the last decode_char
    dict        \* the object a font (or a part of it) is being built from

fontVars == <<font, bytes, pos, ret, prev, sum, calls, decoded, dict>>

docVars == <<pc, page, npages, fail_at, frames, cur, events, nops, lastOp, hist, obs>>

vars == <<font, bytes, pos, ret, prev, sum, calls, decoded, dict,
          pc, page, npages, fail_at, frames, cur, events, nops, lastOp, hist, obs>>

-----------------------------------------------------------------------------
(* Bounds *)

MaxLen == 4         \* longest byte string
MaxRanges == 2      \* most codespace ranges of a CMap
MaxCid == 1         \* most CID ranges of a CMap
MaxOps == 5         \* most operators interpreted in one run
MaxDepth == 2       \* deepest nesting of process_stream (page content, form XObjects)
MaxNest == 66       \* deepest nesting of a form XObject that invokes itself

-----------------------------------------------------------------------------
(* Generic helpers *)

Min(a, b) == IF a < b THEN a ELSE b

SeqsUpTo(S, n) == UNION {[1..k -> S] : k \in 0..n}

\* sequences of pairwise different elements of S, of length lo..hi
DistinctSeqs(S, lo, hi) ==
    {s \in UNION {[1..k -> S] : k \in lo..hi} :
        \A i, j \in 1..Len(s) : i # j => s[i] # s[j]}

\* nothing observed yet
NoDecoded == [result |-> <<>>, last |-> <<>>]

NoObs == [q_gs |-> <<>>, q_before |-> <<>>, fr |-> <<>>, nev |-> 0,
          s |-> <<>>, start |-> 0, pos |-> 0, tms |-> <<>>,
          depth |-> 0, err |-> <<>>, ops |-> <<>>,
          callers |-> <<>>]

-----------------------------------------------------------------------------
(* Fonts: next_char *)

\* Option<(CharCode, u8)>: None is <<>>, Some((c, n)) is <<c, n>>
None == <<>>

Some(c, n) == <<c, n>>

\* CodeRange { width, start, end }
CodeRange(w, s, e) == [width |-> w, start |-> s, end |-> e]

\* CIDRange { src_code_lo, src_code_hi, dst_CID_lo }
CIDRange(lo, hi, dst) == [src_code_lo |-> lo, src_code_hi |-> hi, dst_CID_lo |-> dst]

\* the inner loop "for cid_range in &self.encoding.cid": the CID of the first
\* CID range holding code, as <<cid>>, or None
RECURSIVE cid_lookup(_, _, _)
cid_lookup(cid, code, j) ==
    IF j > Len(cid) THEN None
    ELSE IF code >= cid[j].src_code_lo /\ code <= cid[j].src_code_hi
         THEN <<code - cid[j].src_code_lo + cid[j].dst_CID_lo>>
         ELSE cid_lookup(cid, code, j + 1)

\* the first loop of PdfCIDFont::next_char: single-byte codespace ranges
RECURSIVE one_byte_scan(_, _, _)
one_byte_scan(enc, code, i) ==
    IF i > Len(enc.codespace) THEN None
    ELSE LET range == enc.codespace[i] IN
         IF /\ code >= range.start /\ code <= range.end /\ range.width = 1
            /\ cid_lookup(enc.cid, code, 1) # None
         THEN Some(cid_lookup(enc.cid, code, 1)[1], 1)
         ELSE one_byte_scan(enc, code, i + 1)

\* "for range in &self.encoding.codespace" of the multi-byte loop, from range
\* i on, with the cursor at p: a matching range of width k consumes k-1 more
\* bytes (iter.next() on an exhausted iterator consumes nothing) and returns
\* only when a CID range holds the code; otherwise the scan goes on
RECURSIVE multi_byte_scan(_, _, _, _, _, _)
multi_byte_scan(enc, B, code, k, p, i) ==
    IF i > Len(enc.codespace) THEN [ret |-> None, pos |-> p]
    ELSE LET range == enc.codespace[i] IN
         IF code >= range.start /\ code <= range.end /\ range.width = k
         THEN LET p2 == Min(Len(B), p + (k - 1))
                  m == cid_lookup(enc.cid, code, 1)
              IN  IF m # None
                  THEN [ret |-> Some(m[1], k), pos |-> p2]
                  ELSE multi_byte_scan(enc, B, code, k, p2, i + 1)
         ELSE multi_byte_scan(enc, B, code, k, p, i + 1)

\* "for bytes in 2..=4": the next byte is read at index bytes-2 of what is
\* left of the iterator, i.e. B[p + k - 1] (1-based) with p bytes consumed
RECURSIVE multi_byte(_, _, _, _, _)
multi_byte(enc, B, code, k, p) ==
    IF k > 4 \/ p + k - 1 > Len(B) THEN [ret |-> None, pos |-> p]
    ELSE LET code2 == code * 256 + B[p + k - 1]
             r == multi_byte_scan(enc, B, code2, k, p, 1)
         IN  IF r.ret # None THEN r
             ELSE multi_byte(enc, B, code2, k + 1, r.pos)

\* PdfCIDFont::next_char with p bytes of B consumed
next_char_cid(enc, B, p) ==
    IF p >= Len(B) THEN [ret |-> None, pos |-> p]
    ELSE LET first == B[p + 1]
             one == one_byte_scan(enc, first, 1)
         IN  IF one # None THEN [ret |-> one, pos |-> p + 1]
             ELSE multi_byte(enc, B, first, 2, p + 1)

\* PdfSimpleFont::next_char and PdfType3Font::next_char
next_char_simple(B, p) ==
    IF p >= Len(B) THEN [ret |-> None, pos |-> p]
    ELSE [ret |-> Some(B[p + 1], 1), pos |-> p + 1]

\* PdfFont::next_char, dispatched on the font kind
next_char(f, B, p) ==
    IF f.kind = "CID" THEN next_char_cid(f.encoding, B, p)
    ELSE next_char_simple(B, p)

-----------------------------------------------------------------------------
(* Inputs of the font specification *)

ByteVals == {0, 32, 65}

CodeRangePool ==
    { CodeRange(1, 0, 63), CodeRange(2, 0, 65535),
      CodeRange(2, 16384, 16895), CodeRange(3, 0, 16777215) }

CIDRangePool ==
    { CIDRange(0, 65535, 0), CIDRange(0, 255, 0), CIDRange(16640, 16777215, 0) }

CIDEncodings ==
    { [codespace |-> cs, cid |-> c] :
        cs \in DistinctSeqs(CodeRangePool, 1, MaxRanges),
        c \in DistinctSeqs(CIDRangePool, 0, MaxCid) }

\* an identity mapping that stops at the one-byte codes
IdentityEncoding_low_codes ==
    [codespace |-> <<CodeRange(2, 0, 65535)>>, cid |-> <<CIDRange(0, 255, 0)>>]

\* the ByteMapping PdfCIDFont::load_encoding builds for Identity-H / Identity-V
IdentityEncoding ==
    [codespace |-> <<CodeRange(2, 0, 65535)>>, cid |-> <<CIDRange(0, 65535, 0)>>]

NoEncoding == [codespace |-> <<>>, cid |-> <<>>]

CursorFonts ==
    { [kind |-> "Simple", encoding |-> NoEncoding],
      [kind |-> "Type3", encoding |-> NoEncoding] }
    \cup { [kind |-> "CID", encoding |-> e] : e \in CIDEncodings }

-----------------------------------------------------------------------------
(* Font specification: a cursor over a byte string, next_char until None *)

InitFont ==
    /\ font \in CursorFonts
    /\ bytes \in SeqsUpTo(ByteVals, MaxLen)
    /\ pos = 0
    /\ ret = None
    /\ prev = 0
    /\ sum = 0
    /\ calls = 0
    /\ decoded = NoDecoded /\ dict = <<>>
    /\ pc = "off" /\ page = 0 /\ npages = 0 /\ fail_at = 0 /\ frames = <<>>
    /\ cur = <<>> /\ events = <<>> /\ nops = 0 /\ lastOp = "" /\ hist = <<>>
    /\ obs = NoObs

\* one call of font.next_char(&mut iter), as in the loop of PdfFont::decode
\* and of show_text; the loop ends at the first None
NextCharCall ==
    /\ calls = 0 \/ ret # None
    /\ LET r == next_char(font, bytes, pos) IN
        /\ ret' = r.ret
        /\ pos' = r.pos
        /\ prev' = pos
        /\ sum' = IF r.ret # None THEN sum + r.ret[2] ELSE sum
        /\ calls' = calls + 1
    /\ UNCHANGED <<font, bytes, decoded, dict>>
    /\ UNCHANGED docVars

NextFont == NextCharCall

SpecFont == InitFont /\ [][NextFont]_vars

-----------------------------------------------------------------------------
(* Claims about next_char *)

\* the loop over next_char has ended
IterDone == calls > 0 /\ ret = None

\* the k-byte big-endian code at offset p of B
RECURSIVE BigEndian(_, _, _)
BigEndian(B, p, k) ==
    IF k = 0 THEN 0 ELSE BigEndian(B, p, k - 1) * 256 + B[p + k]

\* the codespace of a font: simple fonts take every single byte
CodespaceOf(f) ==
    IF f.kind = "CID" THEN f.encoding.codespace ELSE <<CodeRange(1, 0, 255)>>

\* B from offset p on is a sequence of codes, each within a codespace range of
\* its own width
RECURSIVE WellFormedFrom(_, _, _)
WellFormedFrom(cs, B, p) ==
    \/ p = Len(B)
    \/ \E i \in 1..Len(cs) :
        /\ p + cs[i].width <= Len(B)
        /\ BigEndian(B, p, cs[i].width) >= cs[i].start
        /\ BigEndian(B, p, cs[i].width) <= cs[i].end
        /\ WellFormedFrom(cs, B, p + cs[i].width)

WellFormed(f, B) == WellFormedFrom(CodespaceOf(f), B, 0)

\* C1: when the loop over next_char ends, the cursor has consumed all of B
\* exactly if B is well-formed under the font's codespace, and then the
\* returned bytes_consumed values add up to |B|.
C1_ConsumesAllIffWellFormed ==
    IterDone =>
        /\ (pos = Len(bytes)) <=> WellFormed(font, bytes)
        /\ WellFormed(font, bytes) => sum = Len(bytes)

\* C2: a call that returns Some((code, n)) moves the cursor by exactly n;
\* n = 1 for simple and Type3 fonts; for a CID font n is in 1..4 and is the
\* width of a codespace range that holds the n-byte code read at the cursor.
C2_AdvanceMatchesCodespace ==
    (calls > 0 /\ ret # None) =>
        /\ pos = prev + ret[2]
        /\ font.kind # "CID" => ret[2] = 1
        /\ font.kind = "CID" =>
            /\ ret[2] \in 1..4
            /\ \E i \in 1..Len(font.encoding.codespace) :
                LET range == font.encoding.codespace[i] IN
                /\ range.width = ret[2]
                /\ prev + ret[2] <= Len(bytes)
                /\ BigEndian(bytes, prev, ret[2]) >= range.start
                /\ BigEndian(bytes, prev, ret[2]) <= range.end

-----------------------------------------------------------------------------
(* Type0 fonts with a predefined /Encoding name *)

\* PdfCIDFont::load_encoding for /Encoding a name: the fixed mapping for
\* Identity-H and Identity-V, built in place (parsed = FALSE: no call of
\* adobe_cmap_parser::get_byte_mapping), an Err for every other name
load_encoding_cid(name) ==
    IF name \in {"Identity-H", "Identity-V"}
    THEN [ok |-> TRUE, mapping |-> IdentityEncoding, parsed |-> FALSE]
    ELSE [ok |-> FALSE, mapping |-> NoEncoding, parsed |-> FALSE]

EncodingNames == {"Identity-H", "Identity-V", "UniJIS-UCS2-H"}

InitIdentity ==
    /\ \E n \in EncodingNames :
        LET e == load_encoding_cid(n) IN
        /\ e.ok
        /\ font = [kind |-> "CID", encoding |-> e.mapping, parsed |-> e.parsed]
    /\ bytes \in SeqsUpTo(ByteVals, MaxLen)
    /\ pos = 0 /\ ret = None /\ prev = 0 /\ sum = 0 /\ calls = 0
    /\ decoded = NoDecoded /\ dict = <<>>
    /\ pc = "off" /\ page = 0 /\ npages = 0 /\ fail_at = 0 /\ frames = <<>>
    /\ cur = <<>> /\ events = <<>> /\ nops = 0 /\ lastOp = "" /\ hist = <<>>
    /\ obs = NoObs

NextIdentity == NextCharCall

SpecIdentity == InitIdentity /\ [][NextIdentity]_vars

\* C12: Identity-H and Identity-V give, without the CMap parser, codespace
\* [(2, 0, 0xFFFF)] and cid [(0, 0xFFFF, 0)]; on a byte string of even
\* length 2k next_char returns k codes, the i-th being 256*b0 + b1 of the
\* i-th byte pair read from 2 bytes, and then None.
C12_IdentityTwoBytes ==
    /\ font.encoding =
         [ codespace |-> <<[width |-> 2, start |-> 0, end |-> 65535]>>,
           cid |-> <<[src_code_lo |-> 0, src_code_hi |-> 65535, dst_CID_lo |-> 0]>> ]
    /\ ~font.parsed
    /\ Len(bytes) % 2 = 0 =>
        /\ (calls > 0 /\ 2 * calls <= Len(bytes)) =>
            /\ ret = <<256 * bytes[2 * calls - 1] + bytes[2 * calls], 2>>
            /\ pos = 2 * calls
            /\ prev = 2 * (calls - 1)
        /\ 2 * calls > Len(bytes) =>
            /\ ret = None
            /\ pos = Len(bytes)
            /\ 2 * (calls - 1) = Len(bytes)

\* 00 41 00 41: the second call has returned 0x41 again
C12_Witness ==
    /\ bytes = <<0, 65, 0, 65>>
    /\ calls = 2
    /\ ret = <<65, 2>>
    /\ pos = 4

-----------------------------------------------------------------------------
(* f64 values and PdfTransform (euclid's Transform2D<f64>) *)

\* std::f64::NAN, the font size before the first Tf; every sum and product
\* with it is NaN again
NaN == -999999999

FAdd(x, y) == IF x = NaN \/ y = NaN THEN NaN ELSE x + y

FMul(x, y) == IF x = NaN \/ y = NaN THEN NaN ELSE x * y

FNeg(x) == IF x = NaN THEN NaN ELSE 0 - x

\* Transform2D::new(m11, m12, m21, m22, m31, m32) is <<m11, ..., m32>>
Identity == <<1, 0, 0, 1, 0, 0>>

\* Transform2D::translation(x, y)
Translation(x, y) == <<1, 0, 0, 1, x, y>>

\* a.then(&b): the transformation a followed by b
Then(a, b) ==
    << FAdd(FMul(a[1], b[1]), FMul(a[2], b[3])),
       FAdd(FMul(a[1], b[2]), FMul(a[2], b[4])),
       FAdd(FMul(a[3], b[1]), FMul(a[4], b[3])),
       FAdd(FMul(a[3], b[2]), FMul(a[4], b[4])),
       FAdd(FAdd(FMul(a[5], b[1]), FMul(a[6], b[3])), b[5]),
       FAdd(FAdd(FMul(a[5], b[2]), FMul(a[6], b[4])), b[6]) >>

-----------------------------------------------------------------------------
(* The fonts of the document: get_width and decode_char *)

PDF_DOC_ENCODING ==
    << 0, 1, 2, 3, 4, 5, 6, 7, 8, 9, 10, 11,
       12, 13, 14, 15, 16, 17, 18, 19, 20, 21, 22, 23,
       728, 711, 710, 729, 733, 731, 730, 732, 32, 33, 34, 35,
       36, 37, 38, 39, 40, 41, 42, 43, 44, 45, 46, 47,
       48, 49, 50, 51, 52, 53, 54, 55, 56, 57, 58, 59,
       60, 61, 62, 63, 64, 65, 66, 67, 68, 69, 70, 71,
       72, 73, 74, 75, 76, 77, 78, 79, 80, 81, 82, 83,
       84, 85, 86, 87, 88, 89, 90, 91, 92, 93, 94, 95,
       96, 97, 98, 99, 100, 101, 102, 103, 104, 105, 106, 107,
       108, 109, 110, 111, 112, 113, 114, 115, 116, 117, 118, 119,
       120, 121, 122, 123, 124, 125, 126, 0, 8226, 8224, 8225, 8230,
       8212, 8211, 402, 8260, 8249, 8250, 8722, 8240, 8222, 8220, 8221, 8216,
       8217, 8218, 8482, 64257, 64258, 321, 338, 352, 376, 381, 305, 322,
       339, 353, 382, 0, 8364, 161, 162, 163, 164, 165, 166, 167,
       168, 169, 170, 171, 172, 0, 174, 175, 176, 177, 178, 179,
       180, 181, 182, 183, 184, 185, 186, 187, 188, 189, 190, 191,
       192, 193, 194, 195, 196, 197, 198, 199, 200, 201, 202, 203,
       204, 205, 206, 207, 208, 209, 210, 211, 212, 213, 214, 215,
       216, 217, 218, 219, 220, 221, 222, 223, 224, 225, 226, 227,
       228, 229, 230, 231, 232, 233, 234, 235, 236, 237, 238, 239,
       240, 241, 242, 243, 244, 245, 246, 247, 248, 249, 250, 251,
       252, 253, 254, 255 >>

\* a String is the sequence of its Unicode scalar values

\* string_utils::to_utf8(encoding, &[byte]): the table entry k (0 when the
\* table is too short) as the UTF-16BE unit (k >> 8, k & 0xff), decoded without
\* replacement: a lone surrogate is an error, every other unit, U+0000
\* included, is a one-character string.  (A single byte never has the BOM.)
to_utf8(encoding, byte) ==
    LET k == IF byte + 1 <= Len(encoding) THEN encoding[byte + 1] ELSE 0 IN
    IF k >= 55296 /\ k <= 57343
    THEN [ok |-> FALSE, s |-> <<>>]
    ELSE [ok |-> TRUE, s |-> <<k>>]

\* PdfSimpleFont::decode_char and PdfType3Font::decode_char: the Unicode map
\* first, then the encoding table (PDFDocEncoding when the font has none);
\* a decoding error gives String::new()
decode_char_simple(f, c) ==
    IF f.has_unicode_map /\ c \in DOMAIN f.unicode_map
    THEN f.unicode_map[c]
    ELSE LET encoding == IF f.has_encoding THEN f.enc_table ELSE PDF_DOC_ENCODING
             byte == c % 256
             r == to_utf8(encoding, byte)
         IN  IF r.ok THEN r.s ELSE <<>>

\* PdfCIDFont::decode_char: the ToUnicode entry, or String::new()
decode_char_cid(f, c) ==
    IF f.has_unicode_map /\ c \in DOMAIN f.unicode_map
    THEN f.unicode_map[c]
    ELSE <<>>

decode_char(f, c) ==
    IF f.kind = "CID" THEN decode_char_cid(f, c) ELSE decode_char_simple(f, c)

\* get_width: the width table, else missing_width (PdfSimpleFont), 0.0
\* (PdfType3Font), default_width (PdfCIDFont): the font's field fallback
get_width(f, id) ==
    IF id \in DOMAIN f.widths THEN f.widths[id]
    ELSE IF f.kind = "Type3" THEN 0 ELSE f.fallback

\* The font objects of the modelled document.
\*   Helv: a simple font without /Encoding and /ToUnicode, widths for the
\*         space and for A and B
\*   Ident: a Type0 font with /Encoding Identity-H, a ToUnicode map with
\*         0x41 -> U+03A9 and 0x4142 -> U+03A9, no /W, /DW 1000
\*   Part: a Type0 font whose embedded CMap has the codespace <00>..<7F> and
\*         maps it to the CIDs 0..127; ToUnicode for A and B, /W [65 [500]]
Fonts ==
    [ Helv |->
        [ kind |-> "Simple", encoding |-> NoEncoding,
          has_encoding |-> FALSE, enc_table |-> <<>>,
          has_unicode_map |-> FALSE, unicode_map |-> <<>>,
          widths |-> (32 :> 250) @@ (65 :> 500) @@ (66 :> 600), fallback |-> 0 ],
      Ident |->
        [ kind |-> "CID", encoding |-> IdentityEncoding,
          has_encoding |-> FALSE, enc_table |-> <<>>,
          has_unicode_map |-> TRUE, unicode_map |-> (65 :> <<937>>) @@ (16706 :> <<937>>),
          widths |-> <<>>, fallback |-> 1000 ],
      Part |->
        [ kind |-> "CID",
          encoding |-> [codespace |-> <<CodeRange(1, 0, 127)>>,
                        cid |-> <<CIDRange(0, 127, 0)>>],
          has_encoding |-> FALSE, enc_table |-> <<>>,
          has_unicode_map |-> TRUE, unicode_map |-> (65 :> <<65>>) @@ (66 :> <<66>>),
          widths |-> (65 :> 500), fallback |-> 1000 ] ]

\* /Resources /Font of the page: resource name -> font object
FontResources == [F1 |-> "Helv", F2 |-> "Ident"]

\* one more entry of the page's /Resources /Font: a CID font whose CMap has
\* a one-byte codespace <00>..<7F>, so that bytes from 0x80 on are no code
PartFontResources == [F4 |-> "Part"]

\* /Resources /Font of the form XObject Fm2
FormFontResources == [F1 |-> "Ident"]

\* the resource dictionaries process_stream is called with: of the page,
\* and of Fm2, whose /XObject names Fm2 itself
ResourceDicts ==
    [ page |-> [Font |-> FontResources @@ PartFontResources,
                XObject |-> {"Fm1", "Fm2"}],
      Fm2  |-> [Font |-> FormFontResources, XObject |-> {"Fm2"}] ]

\* the form XObjects and their /Resources entry: Fm1 has none
XObjects == [Fm1 |-> <<>>, Fm2 |-> <<"Fm2">>]

\* maybe_get_obj(doc, &xf.dict, b"Resources") ... .unwrap_or(resources)
resources_of(name, resources) ==
    IF XObjects[name] = <<>> THEN resources ELSE XObjects[name][1]

-----------------------------------------------------------------------------
(* Simple fonts: the encoding table load_encoding builds, and PdfFont::decode *)

\* glyphnames::name_to_unicode on the glyph names used here (Adobe Glyph
\* List); a name outside the list, "notdef" among them, has no Unicode
GlyphList == ("Ohm" :> 8486) @@ ("A" :> 65) @@ ("space" :> 32)

name_to_unicode(name) ==
    IF name \in DOMAIN GlyphList THEN <<GlyphList[name]>> ELSE <<>>

\* the slots 128..159 of WinAnsiEncoding that hold a glyph
WinAnsiHigh ==
    (128 :> 8364) @@ (130 :> 8218) @@ (131 :> 402) @@ (132 :> 8222)
    @@ (133 :> 8230) @@ (134 :> 8224) @@ (135 :> 8225) @@ (136 :> 710)
    @@ (137 :> 8240) @@ (138 :> 352) @@ (139 :> 8249) @@ (140 :> 338)
    @@ (142 :> 381) @@ (145 :> 8216) @@ (146 :> 8217) @@ (147 :> 8220)
    @@ (148 :> 8221) @@ (149 :> 8226) @@ (150 :> 8211) @@ (151 :> 8212)
    @@ (152 :> 732) @@ (153 :> 8482) @@ (154 :> 353) @@ (155 :> 8250)
    @@ (156 :> 339) @@ (158 :> 382) @@ (159 :> 376)

\* encoding_to_unicode_table(b"WinAnsiEncoding"): the glyph names of the
\* table mapped through name_to_unicode, 0 where the table has no glyph
WinAnsiTable ==
    [ i \in 1..256 |->
        LET c == i - 1 IN
        IF c < 32 \/ c = 127 THEN 0
        ELSE IF c <= 126 THEN c
        ELSE IF c <= 159 THEN (IF c \in DOMAIN WinAnsiHigh THEN WinAnsiHigh[c] ELSE 0)
        ELSE IF c = 160 THEN 32
        ELSE IF c = 173 THEN 45
        ELSE c ]

\* encoding_to_unicode_table: an Err for a name it does not know
encoding_to_unicode_table(name) ==
    IF name = "WinAnsiEncoding"
    THEN [ok |-> TRUE, table |-> WinAnsiTable]
    ELSE [ok |-> FALSE, table |-> <<>>]

\* apply_encoding_differences from entry i on, the current code being code
RECURSIVE apply_encoding_differences(_, _, _, _)
apply_encoding_differences(table, differences, i, code) ==
    IF i > Len(differences) THEN [ok |-> TRUE, table |-> table]
    ELSE LET obj == differences[i] IN
         IF obj.t = "Integer"
         THEN apply_encoding_differences(table, differences, i + 1, obj.v)
         ELSE IF obj.t = "Name"
         THEN LET unicode == name_to_unicode(obj.v)
                  next == IF unicode # <<>> /\ code >= 0 /\ code < Len(table)
                          THEN [table EXCEPT ![code + 1] = unicode[1]]
                          ELSE table
              IN  apply_encoding_differences(next, differences, i + 1, code + 1)
         ELSE [ok |-> FALSE, table |-> table]

\* /Encoding of a font dictionary: absent, a name, or a dictionary with an
\* optional /BaseEncoding ("" when absent) and /Differences
EncNone == [t |-> "None"]

EncName(n) == [t |-> "Name", name |-> n]

EncDict(base, diffs) == [t |-> "Dict", base |-> base, differences |-> diffs]

\* PdfSimpleFont::load_encoding and PdfType3Font::load_encoding for a font
\* without font file: [ok, some, table], some = FALSE for Ok(None).  When
\* /Encoding is absent a TrueType simple font gets WinAnsi, another simple
\* font none, and a Type3 font ("Type3" as subtype here) is an Err
load_encoding(enc, subtype) ==
    IF enc.t = "Name"
    THEN LET r == encoding_to_unicode_table(enc.name) IN
         [ok |-> r.ok, some |-> TRUE, table |-> r.table]
    ELSE IF enc.t = "Dict"
    THEN LET b == IF enc.base # "" THEN encoding_to_unicode_table(enc.base)
                  ELSE [ok |-> TRUE, table |-> PDF_DOC_ENCODING]
         IN  IF ~b.ok THEN [ok |-> FALSE, some |-> FALSE, table |-> <<>>]
             ELSE LET d == apply_encoding_differences(b.table, enc.differences, 1, 0)
                  IN  [ok |-> d.ok, some |-> TRUE, table |-> d.table]
    ELSE IF subtype = "Type3"
    THEN [ok |-> FALSE, some |-> FALSE, table |-> <<>>]
    ELSE IF subtype = "TrueType"
    THEN [ok |-> TRUE, some |-> TRUE, table |-> WinAnsiTable]
    ELSE [ok |-> TRUE, some |-> FALSE, table |-> <<>>]

\* the font object built from a font dictionary with this /Subtype,
\* /Encoding and ToUnicode map (<<>> when there is none)
simple_font(kind, subtype, enc, umap) ==
    LET e == load_encoding(enc, subtype) IN
    [ kind |-> kind, encoding |-> NoEncoding,
      has_encoding |-> e.some, enc_table |-> e.table,
      has_unicode_map |-> umap # <<>>, unicode_map |-> umap,
      widths |-> <<>>, fallback |-> 0 ]

\* entries of /Resources /Font beyond FontResources: F3 is a Type3 font
\* dictionary without /Encoding
OtherFontEntries == [F3 |-> [subtype |-> "Type3", enc |-> EncNone]]

\* the names that have an entry in /Resources /Font
FontEntries(resources) ==
    DOMAIN ResourceDicts[resources].Font
        \cup (IF resources = "page" THEN DOMAIN OtherFontEntries ELSE {})

\* make_font(doc, entry).is_ok()
make_font_ok(name) ==
    \/ name \in DOMAIN FontResources \cup DOMAIN PartFontResources
    \/ /\ name \in DOMAIN OtherFontEntries
       /\ load_encoding(OtherFontEntries[name].enc,
                        OtherFontEntries[name].subtype).ok

\* the names a Tf operator may carry; F9 has no entry
FontNames == FontEntries("page") \cup {"F9"}

\* [65 /Ohm 66 /notdef]
OhmDifferences ==
    <<[t |-> "Integer", v |-> 65], [t |-> "Name", v |-> "Ohm"],
      [t |-> "Integer", v |-> 66], [t |-> "Name", v |-> "notdef"]>>

EncodingObjs ==
    { EncNone, EncName("WinAnsiEncoding"),
      EncDict("WinAnsiEncoding", OhmDifferences),
      EncDict("", <<[t |-> "Name", v |-> "space"], [t |-> "Name", v |-> "A"]>>),
      EncDict("WinAnsiEncoding", <<[t |-> "String", v |-> <<65>>]>>),
      EncName("StandardEncoding") }

UnicodeMaps == { <<>>, (65 :> <<937>>) }

\* the simple and Type3 fonts whose construction succeeds
FontDicts ==
    { <<"Simple", "Type1">>, <<"Simple", "TrueType">>, <<"Type3", "Type3">> }
        \X EncodingObjs \X UnicodeMaps

DecodeFonts ==
    { simple_font(d[1][1], d[1][2], d[2], d[3]) :
        d \in {x \in FontDicts : load_encoding(x[2], x[1][2]).ok} }

DecodeBytes == {0, 65, 66, 127}

InitDecode ==
    /\ font \in DecodeFonts
    /\ bytes \in SeqsUpTo(DecodeBytes, MaxLen)
    /\ pos = 0 /\ ret = None /\ prev = 0 /\ sum = 0 /\ calls = 0
    /\ decoded = NoDecoded /\ dict = <<>>
    /\ pc = "off" /\ page = 0 /\ npages = 0 /\ fail_at = 0 /\ frames = <<>>
    /\ cur = <<>> /\ events = <<>> /\ nops = 0 /\ lastOp = "" /\ hist = <<>>
    /\ obs = NoObs

\* PdfFont::decode, one turn of its loop: next_char, then
\* result.push_str(&self.decode_char(code))
DecodeStep ==
    /\ calls = 0 \/ ret # None
    /\ LET r == next_char(font, bytes, pos)
           s == IF r.ret = None THEN <<>> ELSE decode_char(font, r.ret[1])
       IN  /\ ret' = r.ret
           /\ pos' = r.pos
           /\ prev' = pos
           /\ sum' = IF r.ret # None THEN sum + r.ret[2] ELSE sum
           /\ calls' = calls + 1
           /\ decoded' = [result |-> decoded.result \o s, last |-> s]
    /\ UNCHANGED <<font, bytes, dict>>
    /\ UNCHANGED docVars

NextDecode == DecodeStep

SpecDecode == InitDecode /\ [][NextDecode]_vars

\* the encoding table decode_char reads for font f
TableOf(f) == IF f.has_encoding THEN f.enc_table ELSE PDF_DOC_ENCODING

\* decode_char has just been called on a code that has no Unicode-map entry
\* and whose slot of the encoding table holds 0
UndefinedSlot ==
    /\ calls > 0
    /\ ret # None
    /\ ~(font.has_unicode_map /\ ret[1] \in DOMAIN font.unicode_map)
    /\ TableOf(font)[(ret[1] % 256) + 1] = 0

\* WinAnsi with Differences [65 /Ohm 66 /notdef]
OhmFont ==
    /\ font.has_encoding
    /\ font.enc_table =
         load_encoding(EncDict("WinAnsiEncoding", OhmDifferences), "Type1").table
    /\ ~font.has_unicode_map

\* C11: for a simple or Type3 font, decode_char of a code without
\* Unicode-map entry whose encoding slot holds 0 is the empty string; with
\* WinAnsi and Differences [65 /Ohm 66 /notdef], code 66 decodes to the
\* empty string.
C11_UndefinedDecodesEmpty ==
    /\ UndefinedSlot => decoded.last = <<>>
    /\ (OhmFont /\ calls > 0 /\ ret = Some(66, 1)) => decoded.last = <<>>

-----------------------------------------------------------------------------
(* GraphicsState, TextState and the locals of process_stream *)

\* Option<Arc<dyn PdfFont>>: <<>> is None, <<id>> is Some(font object id)
NoFont == <<>>

\* the gs process_stream starts with
InitGS ==
    [ ts |-> [ font |-> NoFont,
               font_size |-> NaN,
               character_spacing |-> 0,
               word_spacing |-> 0,
               horizontal_scaling |-> 1,
               leading |-> 0,
               rise |-> 0,
               tm |-> Identity ],
      fill_color |-> <<>>,
      fill_colorspace |-> "DeviceGray",
      stroke_color |-> <<>>,
      stroke_colorspace |-> "DeviceGray",
      line_width |-> 1,
      ctm |-> Identity,
      smask |-> <<>> ]

\* the locals of one process_stream call (built is no local: it is the
\* history Noted keeps)
InitFrame ==
    [ font_table |-> {},
      gs |-> InitGS,
      gs_stack |-> <<>>,
      mc_stack |-> <<>>,
      tlm |-> Identity,
      path |-> <<>>,
      resources |-> "page",
      built |-> <<>> ]

Top == frames[Len(frames)]

SetTop(fr) == [frames EXCEPT ![Len(frames)] = fr]

Front(s) == SubSeq(s, 1, Len(s) - 1)

Last(s) == s[Len(s)]

-----------------------------------------------------------------------------
(* The output device, seen from the interpreter *)

MediaBoxOf(p) == <<0, 0, 612000, 792000>>

\* the device call being made now returns Ok
DevOk == Len(events) + 1 # fail_at

\* an Err that is dropped: output_doc goes on with the next page
Abort_next_page(name) ==
    /\ pc' = "doc"
    /\ page' = page + 1
    /\ frames' = <<>>
    /\ hist' = <<>>
    /\ cur' = <<>>
    /\ lastOp' = name
    /\ obs' = [obs EXCEPT !.depth = Len(frames)]
    /\ UNCHANGED <<npages, fail_at>>

\* a `?` that returns an Err: every process_stream call and output_doc return
\* (obs.depth: how many process_stream calls were running)
Abort(name) ==
    /\ pc' = "err"
    /\ frames' = <<>>
    /\ hist' = <<>>
    /\ cur' = <<>>
    /\ lastOp' = name
    /\ obs' = [obs EXCEPT !.depth = Len(frames)]
    /\ UNCHANGED <<page, npages, fail_at>>

\* the operators that append to the path, and those after which the code
\* clears it
PathBuilders == {"m", "l", "c", "v", "y", "h", "re"}

PathEnders == {"S", "f", "F", "n"}

\* history kept with the frame: fr.built lists the path-building and the
\* ignored painting operators this process_stream call has run since its
\* most recent S, f, F or n
Noted(fr, name) ==
    [fr EXCEPT !.built = IF name \in PathBuilders \cup {"ignored_paint"}
                         THEN Append(@, name)
                         ELSE IF name \in PathEnders THEN <<>>
                         ELSE @]

\* an operator that changes the frame and calls no device operation
\* (obs.ops: the operands the operator was given, where they matter)
QuietOn(name, operands, fr) ==
    /\ pc = "ops"
    /\ nops < MaxOps
    /\ frames' = SetTop(Noted(fr, name))
    /\ nops' = nops + 1
    /\ lastOp' = name
    /\ obs' = [obs EXCEPT !.fr = Top, !.nev = Len(events), !.ops = operands]
    /\ UNCHANGED <<pc, page, npages, fail_at, cur, events, hist>>
    /\ UNCHANGED fontVars

\* a panic in the operation `name` with these operands
PanicOn(name, operands) ==
    /\ pc = "ops"
    /\ nops < MaxOps
    /\ pc' = "panic"
    /\ frames' = <<>>
    /\ hist' = <<>>
    /\ cur' = <<>>
    /\ lastOp' = name
    /\ obs' = [obs EXCEPT !.ops = operands, !.depth = Len(frames),
                          !.fr = Top, !.nev = Len(events), !.err = <<>>]
    /\ nops' = nops + 1
    /\ UNCHANGED <<page, npages, fail_at, events>>
    /\ UNCHANGED fontVars

Quiet(name, fr) == QuietOn(name, <<>>, fr)

\* an operator that makes the device call ev and, if that returns Ok, goes on
\* with frame fr
LoudOn(name, operands, ev, fr) ==
    /\ pc = "ops"
    /\ nops < MaxOps
    /\ nops' = nops + 1
    /\ events' = Append(events, ev)
    /\ IF DevOk
       THEN /\ frames' = SetTop(Noted(fr, name))
            /\ lastOp' = name
            /\ obs' = [obs EXCEPT !.fr = Top, !.nev = Len(events),
                                  !.ops = operands]
            /\ UNCHANGED <<pc, page, npages, fail_at, cur, hist>>
       ELSE Abort(name)
    /\ UNCHANGED fontVars

Loud(name, ev, fr) == LoudOn(name, <<>>, ev, fr)

\* an operator that returns an Err of its own: `return Err(..)` or a `?` on
\* an operand.  obs.err records the error and the locals as they were when
\* process_stream returned
FailOn(name, operands, kind, fr) ==
    /\ pc = "ops"
    /\ nops < MaxOps
    /\ nops' = nops + 1
    /\ pc' = "err"
    /\ frames' = <<>>
    /\ hist' = <<>>
    /\ cur' = <<>>
    /\ lastOp' = name
    /\ obs' = [obs EXCEPT !.fr = Top, !.nev = Len(events),
                          !.depth = Len(frames), !.ops = operands,
                          !.err = <<[kind |-> kind, fr |-> fr]>>]
    /\ UNCHANGED <<page, npages, fail_at, events>>
    /\ UNCHANGED fontVars

Fail(name, kind, fr) == FailOn(name, <<>>, kind, fr)

-----------------------------------------------------------------------------
(* output_doc and output_doc_inner *)

InitDoc ==
    /\ pc = "doc" /\ page = 1 /\ frames = <<>> /\ cur = <<>> /\ events = <<>>
    /\ nops = 0 /\ lastOp = "" /\ hist = <<>> /\ obs = NoObs
    /\ font = Fonts.Helv /\ bytes = <<>> /\ pos = 0 /\ ret = None /\ prev = 0
    /\ sum = 0 /\ calls = 0 /\ decoded = NoDecoded /\ dict = <<>>

\* output_doc_inner up to the call of process_stream: begin_page, then the
\* locals of process_stream
BeginPage ==
    /\ pc = "doc"
    /\ page <= npages
    /\ events' = Append(events,
            [call |-> "begin_page", page_num |-> page, media_box |-> MediaBoxOf(page)])
    /\ IF DevOk
       THEN /\ pc' = "ops"
            /\ frames' = <<InitFrame>>
            /\ hist' = << <<>> >>
            /\ lastOp' = "begin_page"
            /\ UNCHANGED <<page, npages, fail_at, cur, obs>>
       ELSE Abort("begin_page")
    /\ UNCHANGED nops
    /\ UNCHANGED fontVars

\* a page end that does not tell the device
EndPage_no_call ==
    /\ pc = "ops"
    /\ Len(frames) = 1
    /\ pc' = "doc"
    /\ page' = page + 1
    /\ frames' = <<>>
    /\ hist' = <<>>
    /\ lastOp' = "end_page"
    /\ UNCHANGED <<npages, fail_at, cur, obs, events, nops>>
    /\ UNCHANGED fontVars

\* the page's process_stream returns Ok(()): end_page, and output_doc goes to
\* the next page
EndPage ==
    /\ pc = "ops"
    /\ Len(frames) = 1
    /\ events' = Append(events, [call |-> "end_page"])
    /\ IF DevOk
       THEN /\ pc' = "doc"
            /\ page' = page + 1
            /\ frames' = <<>>
            /\ hist' = <<>>
            /\ lastOp' = "end_page"
            /\ UNCHANGED <<npages, fail_at, cur, obs>>
       ELSE Abort("end_page")
    /\ UNCHANGED nops
    /\ UNCHANGED fontVars

\* the loop of output_doc is through: Ok(())
EndDoc ==
    /\ pc = "doc"
    /\ page > npages
    /\ pc' = "done"
    /\ lastOp' = "output_doc"
    /\ UNCHANGED <<page, npages, fail_at, frames, cur, events, nops, hist, obs>>
    /\ UNCHANGED fontVars

-----------------------------------------------------------------------------
(* process_stream: the operators as changes of the locals *)

\* a q that starts a new path
save_state_new_path(fr) == [fr EXCEPT !.gs_stack = Append(@, fr.gs), !.path = <<>>]

\* "q": gs_stack.push(gs.clone())
save_state(fr) == [fr EXCEPT !.gs_stack = Append(@, fr.gs)]

\* a Q that leaves the text state as it is
restore_state_keeps_text(fr) ==
    IF fr.gs_stack # <<>>
    THEN [fr EXCEPT !.gs = [Last(fr.gs_stack) EXCEPT !.ts = fr.gs.ts],
                    !.gs_stack = Front(fr.gs_stack)]
    ELSE fr

\* a Q that falls back to the initial state when the stack is empty
restore_state_or_reset(fr) ==
    IF fr.gs_stack # <<>>
    THEN [fr EXCEPT !.gs = Last(fr.gs_stack), !.gs_stack = Front(fr.gs_stack)]
    ELSE [fr EXCEPT !.gs = InitGS]

\* "Q": gs = gs_stack.pop(), or only a warning when the stack is empty
restore_state(fr) ==
    IF fr.gs_stack # <<>>
    THEN [fr EXCEPT !.gs = Last(fr.gs_stack), !.gs_stack = Front(fr.gs_stack)]
    ELSE fr

\* "cm": gs.ctm = gs.ctm.then(&m)
concat_matrix(fr, m) == [fr EXCEPT !.gs.ctm = Then(@, m)]

\* "BT", "ET"
reset_text(fr) == [fr EXCEPT !.tlm = Identity, !.gs.ts.tm = Identity]

\* "Tm"
set_text_matrix(fr, m) == [fr EXCEPT !.tlm = m, !.gs.ts.tm = m]

\* "Td" (and the tail of "TD" and "T*")
move_text(fr, tx, ty) ==
    LET tlm == Then(fr.tlm, Translation(tx, ty)) IN
    [fr EXCEPT !.tlm = tlm, !.gs.ts.tm = tlm]

\* "TD"
move_text_set_leading(fr, tx, ty) ==
    move_text([fr EXCEPT !.gs.ts.leading = FNeg(ty)], tx, ty)

\* a T* that moves up by the leading
next_line_up(fr) == move_text(fr, 0, fr.gs.ts.leading)

\* "T*"
next_line(fr) == move_text(fr, 0, FNeg(fr.gs.ts.leading))

\* "Tf": the font is made once per name and stream (font_table), then
\* gs.ts.font and gs.ts.font_size are set
set_font(fr, name, size) ==
    [fr EXCEPT !.font_table = @ \cup {name},
               !.gs.ts.font = <<ResourceDicts[fr.resources].Font[name]>>,
               !.gs.ts.font_size = size]

\* "SC" | "SCN": the operands, or nothing under a Pattern colorspace
set_stroke_color(fr, color) ==
    [fr EXCEPT !.gs.stroke_color =
        IF fr.gs.stroke_colorspace = "Pattern" THEN <<>> ELSE color]

\* "sc" | "scn"
set_fill_color(fr, color) ==
    [fr EXCEPT !.gs.fill_color =
        IF fr.gs.fill_colorspace = "Pattern" THEN <<>> ELSE color]

\* apply_state on an ExtGState dictionary with /SMask: the name None clears
\* the soft mask, a dictionary is stored
apply_state(fr, smask) == [fr EXCEPT !.gs.smask = smask]

\* Path::current_point: defined when the last op is MoveTo, LineTo or CurveTo
has_current_point(path) ==
    path # <<>> /\ Last(path).op \in {"MoveTo", "LineTo", "CurveTo"}

current_point(path) == <<Last(path).x, Last(path).y>>

\* a TJ number applied with the wrong sign
adjust_text_wrong_sign(fr, tj) ==
    LET ts == fr.gs.ts
        tx == FMul(ts.horizontal_scaling, FMul(tj, ts.font_size))
    IN  [fr EXCEPT !.gs.ts.tm = Then(@, Translation(tx, 0))]

\* the TJ arm for a number: tx = horizontal_scaling * ((0 - tj/1000) * font_size),
\* in 1/1000 units
adjust_text(fr, tj) ==
    LET ts == fr.gs.ts
        tx == FMul(ts.horizontal_scaling, FMul(FNeg(tj), ts.font_size))
    IN  [fr EXCEPT !.gs.ts.tm = Then(@, Translation(tx, 0))]

\* word spacing for every code 0x20, whatever its length
char_spacing_any_length(ts, c, length) ==
    IF c = 32
    THEN FAdd(ts.character_spacing, ts.word_spacing)
    ELSE ts.character_spacing

\* show_text, one turn of the loop for the code c read from length bytes:
\* the arguments of output_character
char_spacing(ts, c, length) ==
    IF c = 32 /\ length = 1
    THEN FAdd(ts.character_spacing, ts.word_spacing)
    ELSE ts.character_spacing

\* output_character given the code itself, not its decoding
char_event_undecoded(gs, c, length) ==
    LET ts == gs.ts
        f == Fonts[ts.font[1]]
        tsm == <<ts.horizontal_scaling, 0, 0, 1, 0, ts.rise>>
    IN  [ call |-> "output_character",
          trm |-> Then(tsm, Then(ts.tm, gs.ctm)),
          width |-> get_width(f, c),
          spacing |-> char_spacing(ts, c, length),
          font_size |-> ts.font_size,
          char |-> <<c>> ]

char_event(gs, c, length) ==
    LET ts == gs.ts
        f == Fonts[ts.font[1]]
        tsm == <<ts.horizontal_scaling, 0, 0, 1, 0, ts.rise>>
    IN  [ call |-> "output_character",
          trm |-> Then(tsm, Then(ts.tm, gs.ctm)),
          width |-> get_width(f, c),
          spacing |-> char_spacing(ts, c, length),
          font_size |-> ts.font_size,
          char |-> decode_char(f, c) ]

\* an advance that leaves out the spacing
char_advance_no_spacing(fr, c, length) ==
    LET ts == fr.gs.ts
        w0 == get_width(Fonts[ts.font[1]], c)
        tx == FMul(ts.horizontal_scaling, FMul(w0, ts.font_size))
    IN  [fr EXCEPT !.gs.ts.tm = Then(@, Translation(tx, 0))]

\* show_text, one turn of the loop: the text matrix after output_character,
\* tx = horizontal_scaling * (w0 * font_size + spacing)
char_advance(fr, c, length) ==
    LET ts == fr.gs.ts
        w0 == get_width(Fonts[ts.font[1]], c)
        spacing == char_spacing(ts, c, length)
        tx == FMul(ts.horizontal_scaling, FAdd(FMul(w0, ts.font_size), spacing))
    IN  [fr EXCEPT !.gs.ts.tm = Then(@, Translation(tx, 0))]

-----------------------------------------------------------------------------
(* Operands the modelled content streams use *)

Matrices == { <<2, 0, 0, 2, 10000, 0>> }

TextMatrices == { <<2, 0, 0, 2, 0, 80000>> }

FontSizes == {10}

Strings == { <<32>>, <<0, 32>>, <<65, 66>> }

StrObj(s) == [t |-> "String", v |-> s]

IntObj(n) == [t |-> "Integer", v |-> n]

RealObj(n) == [t |-> "Real", v |-> n]

NameObj(n) == [t |-> "Name", v |-> n]

Arrays ==
    { <<StrObj(<<65>>), IntObj(-250), StrObj(<<66>>)>>,
      <<RealObj(100), StrObj(<<32>>), NameObj("x")>>,
      <<IntObj(-250)>> }

\* object_utils::as_num on every operand: all are Integer or Real
all_num(operands) ==
    \A i \in 1..Len(operands) : operands[i].t \in {"Integer", "Real"}

NumsOf(operands) == [i \in 1..Len(operands) |-> operands[i].v]

ObjsOf(nums) == [i \in 1..Len(nums) |-> IntObj(nums[i])]

\* the outcome of an operator: Ok with the new locals, or an Err with the
\* locals as they are at the return
OkWith(fr) == [ok |-> TRUE, kind |-> "", fr |-> fr]

ErrWith(kind, fr) == [ok |-> FALSE, kind |-> kind, fr |-> fr]

\* "cm": the operand count, the six as_num, then gs.ctm
cm_result(fr, operands) ==
    IF Len(operands) # 6 THEN ErrWith("InvalidStructure", fr)
    ELSE IF ~all_num(operands) THEN ErrWith("InvalidStructure", fr)
    ELSE OkWith(concat_matrix(fr, NumsOf(operands)))

\* "Tm" up to the end_line call
Tm_result(fr, operands) ==
    IF Len(operands) # 6 THEN ErrWith("InvalidStructure", fr)
    ELSE IF ~all_num(operands) THEN ErrWith("InvalidStructure", fr)
    ELSE OkWith(set_text_matrix(fr, NumsOf(operands)))

\* a Td that only asks for at least two operands
Td_result_at_least_two(fr, operands) ==
    IF Len(operands) < 2 THEN ErrWith("InvalidStructure", fr)
    ELSE IF ~all_num(operands) THEN ErrWith("InvalidStructure", fr)
    ELSE OkWith(move_text(fr, operands[1].v, operands[2].v))

\* "Td" up to the end_line call
Td_result(fr, operands) ==
    IF Len(operands) # 2 THEN ErrWith("InvalidStructure", fr)
    ELSE IF ~all_num(operands) THEN ErrWith("InvalidStructure", fr)
    ELSE OkWith(move_text(fr, operands[1].v, operands[2].v))

\* "TD" up to the end_line call
TD_result(fr, operands) ==
    IF Len(operands) # 2 THEN ErrWith("InvalidStructure", fr)
    ELSE IF ~all_num(operands) THEN ErrWith("InvalidStructure", fr)
    ELSE OkWith(move_text_set_leading(fr, operands[1].v, operands[2].v))

\* operand lists of the wrong length or with an operand that is no number
SixOperands ==
    { ObjsOf(<<1, 0, 0, 1, 0>>), ObjsOf(<<1, 0, 0, 1, 0, 0, 0>>),
      <<IntObj(1), IntObj(0), IntObj(0), IntObj(1), NameObj("x"), IntObj(0)>> }

TwoOperands ==
    { ObjsOf(<<5000>>), ObjsOf(<<5000, -20000, 0>>), <<>>,
      <<IntObj(5000), NameObj("x")>> }

-----------------------------------------------------------------------------
(* process_stream: one action per operator *)

Op_q ==
    /\ pc = "ops"
    /\ nops < MaxOps
    /\ frames' = SetTop(save_state(Top))
    /\ hist' = [hist EXCEPT ![Len(hist)] = Append(@, Top.gs)]
    /\ nops' = nops + 1
    /\ lastOp' = "q"
    /\ obs' = [obs EXCEPT !.fr = Top, !.nev = Len(events)]
    /\ UNCHANGED <<pc, page, npages, fail_at, cur, events>>
    /\ UNCHANGED fontVars

\* lastOp is "Q" when a q of this stream was unmatched, "Q_empty" otherwise
Op_Q ==
    /\ pc = "ops"
    /\ nops < MaxOps
    /\ frames' = SetTop(restore_state(Top))
    /\ nops' = nops + 1
    /\ IF Last(hist) # <<>>
       THEN /\ hist' = [hist EXCEPT ![Len(hist)] = Front(@)]
            /\ obs' = [obs EXCEPT !.q_gs = Last(Last(hist)), !.q_before = Top.gs,
                                  !.fr = Top, !.nev = Len(events)]
            /\ lastOp' = "Q"
       ELSE /\ lastOp' = "Q_empty"
            /\ obs' = [obs EXCEPT !.fr = Top, !.nev = Len(events)]
            /\ UNCHANGED hist
    /\ UNCHANGED <<pc, page, npages, fail_at, cur, events>>
    /\ UNCHANGED fontVars

cm_with(operands) ==
    /\ pc = "ops"
    /\ LET r == cm_result(Top, operands) IN
       IF r.ok THEN QuietOn("cm", operands, r.fr)
       ELSE FailOn("cm", operands, r.kind, r.fr)

Op_cm == \E m \in Matrices : cm_with(ObjsOf(m))

\* cm with any operand list
Op_cm_any ==
    \E operands \in {ObjsOf(m) : m \in Matrices} \cup SixOperands :
        cm_with(operands)

Op_BT == Quiet("BT", reset_text(Top))

Op_ET == Quiet("ET", reset_text(Top))

Op_Tc == \E v \in {1000} : Quiet("Tc", [Top EXCEPT !.gs.ts.character_spacing = v])

Op_Tw == \E v \in {2000} : Quiet("Tw", [Top EXCEPT !.gs.ts.word_spacing = v])

\* the operand is divided by 100.; only whole scalings are modelled
Op_Tz == \E v \in {200} : Quiet("Tz", [Top EXCEPT !.gs.ts.horizontal_scaling = v \div 100])

Op_TL == \E v \in {14000} : Quiet("TL", [Top EXCEPT !.gs.ts.leading = v])

Op_Ts == \E v \in {3000} : Quiet("Ts", [Top EXCEPT !.gs.ts.rise = v])

\* "Tf": font_table.entry(name).or_insert_with(|| make_font(doc,
\* get(doc, fonts, name).unwrap()).unwrap()): a name already in font_table
\* makes no font; otherwise both the lookup of the resource entry and
\* make_font are unwrapped
Tf_with(name, size) ==
    /\ pc = "ops"
    /\ IF name \in Top.font_table
       THEN QuietOn("Tf", <<name, size>>, set_font(Top, name, size))
       ELSE IF name \notin FontEntries(Top.resources)
       THEN PanicOn("Tf", <<name, size>>)
       ELSE IF ~make_font_ok(name)
       THEN PanicOn("Tf", <<name, size>>)
       ELSE QuietOn("Tf", <<name, size>>, set_font(Top, name, size))

Op_Tf ==
    \E name \in DOMAIN FontResources, size \in FontSizes : Tf_with(name, size)

\* Tf with any font of the page
Op_Tf_page ==
    \E name \in DOMAIN ResourceDicts.page.Font, size \in FontSizes :
        Tf_with(name, size)

\* Tf with any resource name
Op_Tf_any ==
    \E name \in FontNames, size \in FontSizes : Tf_with(name, size)

Tm_with(operands) ==
    /\ pc = "ops"
    /\ LET r == Tm_result(Top, operands) IN
       IF r.ok THEN LoudOn("Tm", operands, [call |-> "end_line"], r.fr)
       ELSE FailOn("Tm", operands, r.kind, r.fr)

Op_Tm == \E m \in TextMatrices : Tm_with(ObjsOf(m))

Op_Tm_any ==
    \E operands \in {ObjsOf(m) : m \in TextMatrices} \cup SixOperands :
        Tm_with(operands)

Td_with(operands) ==
    /\ pc = "ops"
    /\ LET r == Td_result(Top, operands) IN
       IF r.ok THEN LoudOn("Td", operands, [call |-> "end_line"], r.fr)
       ELSE FailOn("Td", operands, r.kind, r.fr)

Op_Td == \E d \in {<<0, -20000>>} : Td_with(ObjsOf(d))

Op_Td_any ==
    \E operands \in {ObjsOf(<<0, -20000>>)} \cup TwoOperands : Td_with(operands)

TD_with(operands) ==
    /\ pc = "ops"
    /\ LET r == TD_result(Top, operands) IN
       IF r.ok THEN LoudOn("TD", operands, [call |-> "end_line"], r.fr)
       ELSE FailOn("TD", operands, r.kind, r.fr)

Op_TD == \E d \in {<<5000, -20000>>} : TD_with(ObjsOf(d))

Op_TD_any ==
    \E operands \in {ObjsOf(<<5000, -20000>>)} \cup TwoOperands : TD_with(operands)

Op_Tstar == Loud("T*", [call |-> "end_line"], next_line(Top))

Op_CS ==
    \E name \in {"DeviceRGB", "Pattern"} :
        Quiet("CS", [Top EXCEPT !.gs.stroke_colorspace = name])

Op_cs ==
    \E name \in {"DeviceRGB", "Pattern"} :
        Quiet("cs", [Top EXCEPT !.gs.fill_colorspace = name])

Op_SC == \E color \in {<<1, 0, 0>>} : Quiet("SC", set_stroke_color(Top, color))

Op_sc == \E color \in {<<0, 1, 0>>} : Quiet("sc", set_fill_color(Top, color))

Op_gs == \E smask \in {<<>>, <<"mask">>} : Quiet("gs", apply_state(Top, smask))

Op_w == \E v \in {2} : Quiet("w", [Top EXCEPT !.gs.line_width = v])

Op_BMC == Quiet("BMC", [Top EXCEPT !.mc_stack = Append(@, "BMC")])

Op_EMC ==
    Quiet("EMC", [Top EXCEPT !.mc_stack = IF @ = <<>> THEN @ ELSE Front(@)])

\* G g RG rg K k, i J j M d ri, W W*, unknown operators: only logged
Op_ignored == Quiet("ignored", Top)

\* a panic unwinds out of output_doc
Panic(name) ==
    /\ pc' = "panic"
    /\ frames' = <<>>
    /\ hist' = <<>>
    /\ cur' = <<>>
    /\ lastOp' = name
    /\ UNCHANGED <<page, npages, fail_at, obs>>

MoveTo(x, y) == [op |-> "MoveTo", x |-> x, y |-> y]

LineTo(x, y) == [op |-> "LineTo", x |-> x, y |-> y]

CurveTo(x1, y1, x2, y2, x, y) ==
    [op |-> "CurveTo", x1 |-> x1, y1 |-> y1, x2 |-> x2, y2 |-> y2, x |-> x, y |-> y]

Rect(x, y, w, h) == [op |-> "Rect", x |-> x, y |-> y, w |-> w, h |-> h]

Close == [op |-> "Close"]

PushPath(fr, o) == [fr EXCEPT !.path = Append(@, o)]

Op_m == \E p \in {<<0, 0>>} : Quiet("m", PushPath(Top, MoveTo(p[1], p[2])))

Op_l == \E p \in {<<10000, 0>>} : Quiet("l", PushPath(Top, LineTo(p[1], p[2])))

Op_c ==
    \E p \in {<<1000, 1000, 2000, 2000, 3000, 0>>} :
        Quiet("c", PushPath(Top, CurveTo(p[1], p[2], p[3], p[4], p[5], p[6])))

\* "v": the first control point is path.current_point(), which panics when
\* the path has no current point
Op_v ==
    \E p \in {<<2000, 2000, 4000, 0>>} :
        /\ pc = "ops"
        /\ IF ~has_current_point(Top.path)
           THEN PanicOn("v", p)
           ELSE QuietOn("v", p, PushPath(Top,
                   CurveTo(current_point(Top.path)[1], current_point(Top.path)[2],
                           p[1], p[2], p[3], p[4])))

Op_y ==
    \E p \in {<<1000, 1000, 5000, 0>>} :
        Quiet("y", PushPath(Top, CurveTo(p[1], p[2], p[3], p[4], p[3], p[4])))

Op_h == Quiet("h", PushPath(Top, Close))

Op_re == \E p \in {<<0, 0, 5000, 5000>>} : Quiet("re", PushPath(Top, Rect(p[1], p[2], p[3], p[4])))

\* a clear that is left out
clear_path_left_out(fr) == fr

\* path.ops.clear()
clear_path(fr) == [fr EXCEPT !.path = <<>>]

\* the arguments of output.stroke
stroke_event(fr) ==
    [call |-> "stroke", ctm |-> fr.gs.ctm, colorspace |-> fr.gs.stroke_colorspace,
     color |-> fr.gs.stroke_color, path |-> fr.path]

\* the arguments of output.fill
fill_event(fr) ==
    [call |-> "fill", ctm |-> fr.gs.ctm, colorspace |-> fr.gs.fill_colorspace,
     color |-> fr.gs.fill_color, path |-> fr.path]

\* "S": output.stroke(ctm, stroke colorspace, stroke color, path)?, then
\* path.ops.clear()
Op_S == Loud("S", stroke_event(Top), clear_path(Top))

\* "F" | "f": output.fill(ctm, fill colorspace, fill color, path)?, then
\* path.ops.clear()
Op_f == \E name \in {"f", "F"} : Loud(name, fill_event(Top), clear_path(Top))

\* "n": path.ops.clear()
Op_n == Quiet("n", clear_path(Top))

\* an ignored painting operator that empties the path
Op_ignored_paint_clears == Quiet("ignored_paint", clear_path(Top))

\* "s" | "f*" | "B" | "B*" | "b": only logged
Op_ignored_paint == Quiet("ignored_paint", Top)

\* "Do" found the form XObject `name`: process_stream is called on its
\* content, with locals of its own and the resources of resources_of.  (The
\* code sets no limit to the nesting; depth and ops bound the model.)
Enter(name, depth, ops) ==
    /\ pc = "ops"
    /\ nops < ops
    /\ Len(frames) < depth
    /\ frames' = Append(frames,
          [InitFrame EXCEPT !.resources = resources_of(name, Top.resources)])
    /\ hist' = Append(hist, <<>>)
    /\ nops' = nops + 1
    /\ lastOp' = "Do"
    /\ obs' = [obs EXCEPT !.fr = Top, !.nev = Len(events), !.ops = <<name>>,
                          !.callers = Append(@, Top)]
    /\ UNCHANGED <<pc, page, npages, fail_at, cur, events>>
    /\ UNCHANGED fontVars

\* "Do": get(doc, xobject, name)? is an Err for a name without entry
Do_with(name, depth, ops) ==
    /\ pc = "ops"
    /\ nops < ops
    /\ IF name \in ResourceDicts[Top.resources].XObject
       THEN Enter(name, depth, ops)
       ELSE FailOn("Do", <<name>>, "MissingField", Top)

\* Do on a form XObject without /Resources
Op_Do == Do_with("Fm1", MaxDepth, MaxOps)

\* Do with any name; Fm9 has no entry
Op_Do_any ==
    \E name \in DOMAIN XObjects \cup {"Fm9"} : Do_with(name, MaxDepth, MaxOps)

\* Do on the form XObject whose content invokes itself
Op_Do_cyclic == Do_with("Fm2", MaxNest, MaxNest)

\* the caller goes on with the graphics state the form XObject ended with
EndStream_keeps_gs ==
    /\ pc = "ops"
    /\ Len(frames) > 1
    /\ frames' = [Front(frames) EXCEPT ![Len(frames) - 1].gs = Top.gs]
    /\ hist' = Front(hist)
    /\ lastOp' = "Do_return"
    /\ obs' = [obs EXCEPT !.callers = Front(@), !.fr = Top, !.nev = Len(events)]
    /\ UNCHANGED <<pc, page, npages, fail_at, cur, events, nops>>
    /\ UNCHANGED fontVars

\* the operations of a form XObject are through: its process_stream returns
\* Ok(()) to the Do of the caller
EndStream ==
    /\ pc = "ops"
    /\ Len(frames) > 1
    /\ frames' = Front(frames)
    /\ hist' = Front(hist)
    /\ lastOp' = "Do_return"
    /\ obs' = [obs EXCEPT !.callers = Front(@), !.fr = Top, !.nev = Len(events)]
    /\ UNCHANGED <<pc, page, npages, fail_at, cur, events, nops>>
    /\ UNCHANGED fontVars

-----------------------------------------------------------------------------
(* Tj, TJ and show_text *)

NoText == <<>>

\* show_text up to its loop: Err when no font is set, else begin_word.
\* array and idx: the TJ array being worked through and the number of its
\* elements taken so far (<<>> and 0 for Tj)
BeginText(name, s, array, idx) ==
    IF Top.gs.ts.font = NoFont
    THEN /\ Abort(name)
         /\ UNCHANGED events
    ELSE /\ events' = Append(events, [call |-> "begin_word"])
         /\ IF DevOk
            THEN /\ pc' = "show"
                 /\ cur' = [array |-> array, idx |-> idx, s |-> s, pos |-> 0]
                 /\ lastOp' = name
                 /\ obs' = [obs EXCEPT !.s = s, !.start = Len(events), !.fr = Top,
                                       !.nev = Len(events),
                                       !.tms = IF idx = 0 THEN <<>> ELSE @]
                 /\ UNCHANGED <<page, npages, fail_at, frames, hist>>
            ELSE Abort(name)

\* "Tj" with a string operand
Op_Tj ==
    \E s \in Strings :
        /\ pc = "ops"
        /\ nops < MaxOps
        /\ nops' = nops + 1
        /\ BeginText("Tj", s, <<>>, 0)
        /\ UNCHANGED fontVars

\* strings with a byte that is no code of the font Part
BrokenStrings == { <<65, 200, 66>>, <<200, 65>>, <<65, 66, 200>>, <<65, 66>> }

\* "Tj" with one of them
Op_Tj_broken ==
    \E s \in BrokenStrings :
        /\ pc = "ops"
        /\ nops < MaxOps
        /\ nops' = nops + 1
        /\ BeginText("Tj", s, <<>>, 0)
        /\ UNCHANGED fontVars

\* "TJ" with an array operand: the loop over its elements starts
Op_TJ ==
    \E array \in Arrays :
        /\ pc = "ops"
        /\ nops < MaxOps
        /\ nops' = nops + 1
        /\ pc' = "array"
        /\ cur' = [array |-> array, idx |-> 0, s |-> <<>>, pos |-> 0]
        /\ lastOp' = "TJ"
        /\ obs' = [obs EXCEPT !.tms = <<>>]
        /\ UNCHANGED <<page, npages, fail_at, frames, events, hist>>
        /\ UNCHANGED fontVars

\* "TJ", one element e of the array: a string is shown, a number moves the
\* text matrix, anything else is skipped
TJ_element ==
    /\ pc = "array"
    /\ cur.idx < Len(cur.array)
    /\ LET e == cur.array[cur.idx + 1] IN
       IF e.t = "String"
       THEN BeginText("TJ_string", e.v, cur.array, cur.idx + 1)
       ELSE /\ frames' = IF e.t \in {"Integer", "Real"}
                         THEN SetTop(adjust_text(Top, e.v))
                         ELSE frames
            /\ cur' = [cur EXCEPT !.idx = @ + 1]
            /\ lastOp' = IF e.t \in {"Integer", "Real"} THEN "TJ_number" ELSE "TJ_other"
            /\ obs' = [obs EXCEPT !.fr = Top, !.nev = Len(events)]
            /\ UNCHANGED <<pc, page, npages, fail_at, events, hist>>
    /\ UNCHANGED nops
    /\ UNCHANGED fontVars

\* "TJ": the array is through
TJ_end ==
    /\ pc = "array"
    /\ cur.idx = Len(cur.array)
    /\ pc' = "ops"
    /\ cur' = NoText
    /\ lastOp' = "TJ_end"
    /\ UNCHANGED <<page, npages, fail_at, frames, events, nops, hist, obs>>
    /\ UNCHANGED fontVars

\* show_text, one turn of "while let Some((c, length)) = font.next_char(..)":
\* output_character, then the text matrix moves on
ShowChar ==
    /\ pc = "show"
    /\ LET r == next_char(Fonts[Top.gs.ts.font[1]], cur.s, cur.pos) IN
        /\ r.ret # None
        /\ events' = Append(events, char_event(Top.gs, r.ret[1], r.ret[2]))
        /\ IF DevOk
           THEN /\ frames' = SetTop(char_advance(Top, r.ret[1], r.ret[2]))
                /\ cur' = [cur EXCEPT !.pos = r.pos]
                /\ lastOp' = "output_character"
                /\ obs' = [obs EXCEPT !.fr = Top, !.nev = Len(events), !.pos = cur.pos,
                                      !.tms = Append(@, Top.gs.ts.tm)]
                /\ UNCHANGED <<pc, page, npages, fail_at, hist>>
           ELSE Abort("output_character")
    /\ UNCHANGED nops
    /\ UNCHANGED fontVars

\* a show_text that steps over a position where next_char gave None and
\* goes on with the bytes behind it
EndText_goes_on ==
    /\ pc = "show"
    /\ LET r == next_char(Fonts[Top.gs.ts.font[1]], cur.s, cur.pos) IN
        /\ r.ret = None
        /\ IF r.pos < Len(cur.s)
           THEN /\ cur' = [cur EXCEPT !.pos = r.pos]
                /\ lastOp' = "skip"
                /\ UNCHANGED <<pc, page, npages, fail_at, frames, hist, events, obs>>
           ELSE /\ events' = Append(events, [call |-> "end_word"])
                /\ pc' = IF cur.array # <<>> THEN "array" ELSE "ops"
                /\ cur' = IF cur.array # <<>> THEN [cur EXCEPT !.s = <<>>, !.pos = 0]
                          ELSE NoText
                /\ lastOp' = "end_word"
                /\ obs' = [obs EXCEPT !.fr = Top, !.nev = Len(events)]
                /\ UNCHANGED <<page, npages, fail_at, frames, hist>>
    /\ UNCHANGED nops
    /\ UNCHANGED fontVars

\* show_text after its loop (next_char gave None): end_word, Ok(())
EndText ==
    /\ pc = "show"
    /\ next_char(Fonts[Top.gs.ts.font[1]], cur.s, cur.pos).ret = None
    /\ events' = Append(events, [call |-> "end_word"])
    /\ IF DevOk
       THEN /\ pc' = IF cur.array # <<>> THEN "array" ELSE "ops"
            /\ cur' = IF cur.array # <<>> THEN [cur EXCEPT !.s = <<>>, !.pos = 0] ELSE NoText
            /\ lastOp' = "end_word"
            /\ obs' = [obs EXCEPT !.fr = Top, !.nev = Len(events)]
            /\ UNCHANGED <<page, npages, fail_at, frames, hist>>
       ELSE Abort("end_word")
    /\ UNCHANGED nops
    /\ UNCHANGED fontVars

-----------------------------------------------------------------------------
(* Specifications of the interpreter.  Each runs output_doc on a document     *)
(* whose content streams are drawn from one group of operators.               *)

Driver == BeginPage \/ EndPage \/ EndDoc

\* a form XObject: its invocation and its return
Forms == Op_Do \/ EndStream

TextSteps == TJ_element \/ TJ_end \/ ShowChar \/ EndText

\* graphics state: q, Q and what changes gs between them
NextGS ==
    \/ Driver
    \/ Forms
    \/ Op_q \/ Op_Q \/ Op_cm \/ Op_Tf \/ Op_Tc \/ Op_sc \/ Op_gs
    \/ Op_Tj \/ ShowChar \/ EndText

InitGSpec == InitDoc /\ npages = 1 /\ fail_at = 0

SpecGS == InitGSpec /\ [][NextGS]_vars

\* text showing: Tj, TJ and the text state they read
NextText ==
    \/ Driver
    \/ Op_Tf \/ Op_Tc \/ Op_Tw \/ Op_Tz \/ Op_Tm \/ Op_cm \/ Op_Tj \/ Op_TJ
    \/ TextSteps

SpecText == InitGSpec /\ [][NextText]_vars

\* text showing with strings the font cannot read to their end
NextStop ==
    \/ Driver
    \/ Op_Tf_page \/ Op_Tc \/ Op_Tm \/ Op_Tj_broken \/ ShowChar \/ EndText

SpecStop == InitGSpec /\ [][NextStop]_vars

\* q and Q among operators that change tlm, the path and the font table
NextSave ==
    \/ Driver
    \/ Op_q \/ Op_Q \/ Op_Td \/ Op_m \/ Op_l \/ Op_Tf \/ Op_BMC

SpecSave == InitGSpec /\ [][NextSave]_vars

\* path construction and painting
NextPath ==
    \/ Driver
    \/ Op_m \/ Op_l \/ Op_c \/ Op_v \/ Op_y \/ Op_h \/ Op_re
    \/ Op_S \/ Op_f \/ Op_n \/ Op_ignored_paint
    \/ Forms

SpecPath == InitGSpec /\ [][NextPath]_vars

\* whole documents: several pages, a device that may fail
MaxPages == 2

MaxFail == 4

InitDocSpec == InitDoc /\ npages \in 1..MaxPages /\ fail_at \in 0..MaxFail

NextDoc ==
    \/ Driver
    \/ Op_Tf \/ Op_Tj \/ ShowChar \/ EndText
    \/ Op_S
    \/ Forms

SpecDoc == InitDocSpec /\ [][NextDoc]_vars

\* a device that fails at one of its first MaxFail calls
InitFail == InitDoc /\ npages \in 1..MaxPages /\ fail_at \in 1..MaxFail

NextFail ==
    \/ Driver
    \/ Op_Tf \/ Op_Tm \/ Op_Tj \/ ShowChar \/ EndText
    \/ Op_S \/ Op_f
    \/ Forms

SpecFail == InitFail /\ [][NextFail]_vars

\* operators given operand lists of any shape
NextOperands ==
    \/ Driver
    \/ Op_cm_any \/ Op_Tm_any \/ Op_Td_any \/ Op_TD_any
    \/ Op_q
    \/ Forms

SpecOperands == InitGSpec /\ [][NextOperands]_vars

\* Tf with any resource name, and the text showing that uses the font
NextTf ==
    \/ Driver
    \/ Forms
    \/ Op_Tf_any \/ Op_q \/ Op_Q \/ Op_Tj \/ ShowChar \/ EndText

SpecTf == InitGSpec /\ [][NextTf]_vars

\* form XObjects: any Do, and operators that change what a stream keeps
NextForms ==
    \/ Driver
    \/ Op_Do_any \/ EndStream
    \/ Op_q \/ Op_Q \/ Op_cm \/ Op_Tf_any \/ Op_Td \/ Op_m

SpecForms == InitGSpec /\ [][NextForms]_vars

\* a form XObject that invokes itself
NextCycle ==
    \/ Driver
    \/ Op_Do_cyclic \/ EndStream

SpecCycle == InitGSpec /\ [][NextCycle]_vars

\* text positioning, with q and Q around it
NextLine ==
    \/ Driver
    \/ Op_BT \/ Op_ET \/ Op_Tm \/ Op_Td \/ Op_TD \/ Op_Tstar \/ Op_TL
    \/ Op_q \/ Op_Q

SpecLine == InitGSpec /\ [][NextLine]_vars

-----------------------------------------------------------------------------
(* Claims about the interpreter *)

\* C3: after a Q, the whole graphics state equals the value it had when the
\* matching q of the same content stream was executed, whatever operators
\* (nested q/Q, cm, text state, text showing, colours, gs, Do) came between.
C3_QRestoresSnapshot == lastOp = "Q" => Top.gs = obs.q_gs

\* a Q nested in another q, undoing a change of the CTM and of the text state
C3_Witness ==
    /\ lastOp = "Q"
    /\ Top.gs_stack # <<>>
    /\ obs.q_before.ctm # obs.q_gs.ctm
    /\ obs.q_before.ts # obs.q_gs.ts

\* the output_character call just made returned Ok
CharShown == lastOp = "output_character" /\ pc = "show"

\* C4: after each output_character call the text matrix is its value before
\* the call composed with T(horizontal_scaling * (w0 * font_size + spacing), 0),
\* w0 and spacing being the arguments of that call; nothing else of the
\* interpreter's state (CTM, tlm, the other text-state fields) has changed.
C4_TextMatrixAdvance ==
    CharShown =>
        LET e == Last(events)
            ts == obs.fr.gs.ts
            tx == FMul(ts.horizontal_scaling,
                       FAdd(FMul(e.width, e.font_size), e.spacing))
        IN  /\ e.call = "output_character"
            /\ Top = [obs.fr EXCEPT !.gs.ts.tm = Then(ts.tm, Translation(tx, 0))]

C4_Witness ==
    /\ CharShown
    /\ Last(events).spacing # 0
    /\ Last(events).width # 0
    /\ obs.fr.gs.ts.horizontal_scaling = 2
    /\ obs.fr.gs.ctm # Identity

PaintOps == {"S", "f", "F", "n"}

\* C5: after S, f, F and n the path is empty; S has called stroke once and
\* f/F have called fill once, with the path as it was before it was cleared;
\* n has called neither.
C5_PaintClearsPath ==
    (lastOp \in PaintOps /\ pc = "ops") =>
        /\ Top.path = <<>>
        /\ lastOp = "S" =>
            /\ Len(events) = obs.nev + 1
            /\ Last(events).call = "stroke"
            /\ Last(events).path = obs.fr.path
        /\ lastOp \in {"f", "F"} =>
            /\ Len(events) = obs.nev + 1
            /\ Last(events).call = "fill"
            /\ Last(events).path = obs.fr.path
        /\ lastOp = "n" => Len(events) = obs.nev

C5_Witness ==
    /\ lastOp = "S"
    /\ pc = "ops"
    /\ Len(obs.fr.path) >= 2

\* PdfFont::char_codes: the codes next_char returns over s from p on
RECURSIVE char_codes(_, _, _)
char_codes(f, s, p) ==
    LET r == next_char(f, s, p) IN
    IF r.ret = None THEN <<>> ELSE <<r.ret>> \o char_codes(f, s, r.pos)

\* a show_text call has just returned Ok
TextShown == lastOp = "end_word" /\ pc \in {"ops", "array"}

\* C6: for a string shown with a font set the device receives begin_word,
\* then one output_character per code next_char returns, in byte order, each
\* with decode_char of that code, then end_word; and the device's events are
\* only ever appended to, in the order of the operators.
C6_EventsOfString ==
    TextShown =>
        LET f == Fonts[Top.gs.ts.font[1]]
            codes == char_codes(f, obs.s, 0)
            got == SubSeq(events, obs.start + 1, Len(events))
        IN  /\ Len(got) = Len(codes) + 2
            /\ got[1].call = "begin_word"
            /\ got[Len(got)].call = "end_word"
            /\ \A i \in 1..Len(codes) :
                /\ got[i + 1].call = "output_character"
                /\ got[i + 1].char = decode_char(f, codes[i][1])

C6_AppendOnly ==
    /\ Len(events') >= Len(events)
    /\ SubSeq(events', 1, Len(events)) = events

C6_TextEvents == [](C6_EventsOfString) /\ [][C6_AppendOnly]_vars

\* two strings shown, the second one two bytes read as one code by the CID
\* font and decoded through ToUnicode
C6_Witness ==
    /\ TextShown
    /\ obs.s = <<65, 66>>
    /\ Top.gs.ts.font = <<"Ident">>
    /\ events[Len(events) - 1].char = <<937>>
    /\ obs.start >= 3

\* C8: the spacing given to output_character and used for the advance is
\* character_spacing + word_spacing exactly when the code is 0x20 read from
\* one byte, and character_spacing alone otherwise.
C8_WordSpacing ==
    CharShown =>
        LET ts == obs.fr.gs.ts
            r == next_char(Fonts[ts.font[1]], obs.s, obs.pos).ret
            e == Last(events)
        IN  /\ e.spacing = IF r[1] = 32 /\ r[2] = 1
                           THEN ts.character_spacing + ts.word_spacing
                           ELSE ts.character_spacing
            /\ r[2] > 1 => e.spacing = ts.character_spacing
            /\ Top.gs.ts.tm =
                 Then(ts.tm, Translation(FMul(ts.horizontal_scaling,
                        FAdd(FMul(e.width, e.font_size), e.spacing)), 0))

\* the code 0x20 read from two bytes while word spacing is set
C8_Witness ==
    /\ CharShown
    /\ next_char(Fonts[obs.fr.gs.ts.font[1]], obs.s, obs.pos).ret = <<32, 2>>
    /\ obs.fr.gs.ts.word_spacing # 0

ScenarioArray == <<StrObj(<<65>>), IntObj(-250), StrObj(<<66>>)>>

\* ["A", -250, "B"] with font size 10, scaling 1, character spacing 0 and
\* width 500 for A: both glyphs have been shown
Scenario ==
    /\ pc = "show"
    /\ cur.array = ScenarioArray
    /\ Len(obs.tms) = 2
    /\ Top.gs.ts.font = <<"Helv">>
    /\ Top.gs.ts.font_size = 10
    /\ Top.gs.ts.horizontal_scaling = 1
    /\ Top.gs.ts.character_spacing = 0

\* C10: a number n in a TJ array changes only the text matrix, by
\* T(horizontal_scaling * (-n/1000) * font_size, 0), and calls no device
\* operation; in the scenario the text matrix at B is the one at A moved 7.5
\* units to the right.
C10_TJNumber ==
    /\ lastOp = "TJ_number" =>
        LET n == cur.array[cur.idx].v
            ts == obs.fr.gs.ts
            tx == FMul(ts.horizontal_scaling, FMul(FNeg(n), ts.font_size))
        IN  /\ Top = [obs.fr EXCEPT !.gs.ts.tm = Then(ts.tm, Translation(tx, 0))]
            /\ Len(events) = obs.nev
    /\ Scenario => obs.tms[2] = Then(obs.tms[1], Translation(7500, 0))

C10_Witness == Scenario /\ lastOp = "output_character"

\* the events up to i are begin_page(1) .. end_page, begin_page(2) .. : pages
\* in ascending order, never nested, nothing outside a page
RECURSIVE PageScan(_, _, _, _)
PageScan(ev, i, inpage, next) ==
    IF i > Len(ev) THEN [ok |-> TRUE, inpage |-> inpage, next |-> next]
    ELSE IF ev[i].call = "begin_page"
         THEN IF ~inpage /\ ev[i].page_num = next
              THEN PageScan(ev, i + 1, TRUE, next)
              ELSE [ok |-> FALSE, inpage |-> inpage, next |-> next]
         ELSE IF ev[i].call = "end_page"
              THEN IF inpage
                   THEN PageScan(ev, i + 1, FALSE, next + 1)
                   ELSE [ok |-> FALSE, inpage |-> inpage, next |-> next]
              ELSE IF inpage
                   THEN PageScan(ev, i + 1, inpage, next)
                   ELSE [ok |-> FALSE, inpage |-> inpage, next |-> next]

\* C7: the device sees, page by page in ascending order, one begin_page, the
\* page's events, one end_page; pairs do not nest and nothing lies outside
\* them; when output_doc returns Ok every page has had its pair.
C7_PageBrackets ==
    LET r == PageScan(events, 1, FALSE, 1) IN
    /\ r.ok
    /\ pc = "done" => (~r.inpage /\ r.next = npages + 1)

\* a two-page document done, with text on both pages
C7_Witness ==
    /\ pc = "done"
    /\ npages = 2
    /\ \E i, j \in 1..Len(events) :
        /\ i < j
        /\ events[i].call = "output_character"
        /\ events[j].call = "begin_page"
        /\ \E k \in (j + 1)..Len(events) : events[k].call = "stroke"

-----------------------------------------------------------------------------
(* PlainTextOutput: the device as a function of the calls made on it.
   Positions and glyph widths are in 1/1000 units, font sizes and the linear
   part of trm are whole numbers; the writer is the sequence of code points
   written so far. *)

Abs(x) == IF x < 0 THEN -x ELSE x

\* f64::sqrt on the products the calls below produce (perfect squares)
Sqrt(n) == IF n < 0 THEN NaN ELSE CHOOSE r \in 0..n : r * r = n

\* PlainTextOutput::new
PlainTextOutput_new ==
    [ writer |-> <<>>,
      last_end |-> 100000000,
      first_char |-> FALSE,
      last_y |-> 0,
      flip_ctm |-> Identity ]

\* begin_page: flip_ctm = (1, 0, 0, -1, 0, ury - lly)
plain_begin_page(dev, media_box) ==
    [dev EXCEPT !.flip_ctm = <<1, 0, 0, -1, 0, media_box[4] - media_box[2]>>]

\* begin_word: first_char = true
plain_begin_word(dev) == [dev EXCEPT !.first_char = TRUE]

\* output_character: up to two newlines and a space before the first
\* character of a word, then the character
plain_output_character(dev, trm, width, font_size, char) ==
    LET position == Then(trm, dev.flip_ctm)
        vx == font_size * trm[1] + font_size * trm[3]
        vy == font_size * trm[2] + font_size * trm[4]
        transformed_font_size == Sqrt(vx * vy)
        x == position[5]
        y == position[6]
        nl1 == IF dev.first_char
                  /\ Abs(y - dev.last_y) > transformed_font_size * 1500
               THEN <<10>> ELSE <<>>
        nl2 == IF dev.first_char
                  /\ x < dev.last_end
                  /\ Abs(y - dev.last_y) > transformed_font_size * 500
               THEN <<10>> ELSE <<>>
        sp  == IF dev.first_char
                  /\ x > dev.last_end + transformed_font_size * 100
               THEN <<32>> ELSE <<>>
    IN  [dev EXCEPT !.writer = @ \o nl1 \o nl2 \o sp \o char,
                    !.first_char = FALSE,
                    !.last_y = y,
                    !.last_end = x + width * transformed_font_size]

\* the device after one call
plain_call(dev, e) ==
    IF e.call = "begin_page" THEN plain_begin_page(dev, e.media_box)
    ELSE IF e.call = "begin_word" THEN plain_begin_word(dev)
    ELSE IF e.call = "output_character"
         THEN plain_output_character(dev, e.trm, e.width, e.font_size, e.char)
         ELSE dev

\* the device after the calls ev[1..i], made on a fresh device
RECURSIVE plain_after(_, _)
plain_after(ev, i) ==
    IF i = 0 THEN PlainTextOutput_new
    ELSE plain_call(plain_after(ev, i - 1), ev[i])

\* the calls a caller makes on the device
MaxCalls == 6

MediaBoxes == { <<0, 0, 612000, 792000>>, <<0, 0, 100000, 100000>> }

GlyphPositions == { <<0, 100000>>, <<0, 80000>> }

GlyphWidths == {0, 500}

GlyphChars == { <<65>>, <<66>> }

GlyphFontSizes == {12}

InitPlain ==
    /\ pc = "dev" /\ page = 1 /\ npages = 1 /\ fail_at = 0
    /\ frames = <<>> /\ cur = <<>> /\ events = <<>>
    /\ nops = 0 /\ lastOp = "" /\ hist = <<>> /\ obs = NoObs
    /\ font = Fonts.Helv /\ bytes = <<>> /\ pos = 0 /\ ret = None /\ prev = 0
    /\ sum = 0 /\ calls = 0 /\ decoded = NoDecoded /\ dict = <<>>

DevCall(e) ==
    /\ pc = "dev"
    /\ Len(events) < MaxCalls
    /\ events' = Append(events, e)
    /\ lastOp' = e.call
    /\ UNCHANGED <<pc, page, npages, fail_at, frames, cur, nops, hist, obs>>
    /\ UNCHANGED fontVars

Dev_begin_page ==
    /\ events = <<>>
    /\ \E mb \in MediaBoxes :
        DevCall([call |-> "begin_page", page_num |-> page, media_box |-> mb])

Dev_begin_word ==
    /\ events # <<>>
    /\ DevCall([call |-> "begin_word"])

Dev_output_character ==
    /\ events # <<>>
    /\ \E p \in GlyphPositions, w \in GlyphWidths, ch \in GlyphChars,
       fs \in GlyphFontSizes :
        DevCall([ call |-> "output_character",
                  trm |-> <<1, 0, 0, 1, p[1], p[2]>>,
                  width |-> w,
                  spacing |-> 0,
                  font_size |-> fs,
                  char |-> ch ])

Dev_end_word ==
    /\ events # <<>>
    /\ DevCall([call |-> "end_word"])

NextPlain ==
    Dev_begin_page \/ Dev_begin_word \/ Dev_output_character \/ Dev_end_word

SpecPlain == InitPlain /\ [][NextPlain]_vars

\* begin_page, then the word "A" at (0,100) and the word "B" at (0,80), at
\* font size 12 and unit scale
TwoWords ==
    /\ Len(events) = 5
    /\ events[1].call = "begin_page"
    /\ events[2].call = "begin_word"
    /\ events[3].call = "output_character"
    /\ events[3].char = <<65>>
    /\ events[3].trm = <<1, 0, 0, 1, 0, 100000>>
    /\ events[4].call = "begin_word"
    /\ events[5].call = "output_character"
    /\ events[5].char = <<66>>
    /\ events[5].trm = <<1, 0, 0, 1, 0, 80000>>

\* C9: on a fresh plain-text device, begin_page and the two words A at
\* (0,100) and B at (0,80) give exactly the output "A\nB": nothing before A
\* and one newline between A and B.
C9_TwoWordsOneNewline ==
    TwoWords => plain_after(events, Len(events)).writer = <<65, 10, 66>>

-----------------------------------------------------------------------------
(* Claims about errors *)

\* the device has returned a failure
DeviceFailed == fail_at > 0 /\ Len(events) >= fail_at

DeviceCalls ==
    { "begin_page", "output_character", "begin_word", "end_word", "end_line",
      "stroke", "fill", "end_page" }

\* C13: when a device operation returns a failure, the failing call is the
\* last one the device receives (no end_page, no later page, also when the
\* call was made inside a form XObject), and output_doc returns the failure.
C13_DeviceFailureAborts ==
    DeviceFailed =>
        /\ Len(events) = fail_at
        /\ events[fail_at].call \in DeviceCalls
        /\ pc = "err"
        /\ frames = <<>>

\* output_character fails inside a form XObject on the first of two pages
C13_Witness ==
    /\ DeviceFailed
    /\ events[fail_at].call = "output_character"
    /\ obs.depth = 2
    /\ npages = 2
    /\ page = 1

\* a Q has just been executed on an empty graphics-state stack
QOnEmptyStack == lastOp \in {"Q", "Q_empty"} /\ obs.fr.gs_stack = <<>>

\* C14: a Q executed when the stack of the current content stream is empty
\* is not an error: gs, the stack, tlm and the path (the whole frame) are
\* unchanged, no device event is emitted, and interpretation goes on.
C14_QOnEmptyStack ==
    QOnEmptyStack =>
        /\ Top = obs.fr
        /\ Len(events) = obs.nev
        /\ pc = "ops"
        /\ frames # <<>>

\* inside a form XObject whose caller has a saved state, after the CTM and
\* the font were changed
C14_Witness ==
    /\ QOnEmptyStack
    /\ Len(frames) = 2
    /\ frames[1].gs_stack # <<>>
    /\ Top.gs.ctm # Identity

\* an operator has made process_stream return Err(InvalidStructure)
Invalid(name) ==
    /\ pc = "err"
    /\ lastOp = name
    /\ obs.err # <<>>
    /\ obs.err[1].kind = "InvalidStructure"

\* the operator named last has returned Ok
Done(name) == lastOp = name /\ pc = "ops"

\* C15: cm and Tm with an operand count other than 6, Td and TD with one
\* other than 2, make process_stream return InvalidStructure; gs and tlm are
\* as before the operator and no end_line is emitted for it.  (ghost
\* obs.fr: the locals before the operator; obs.err: those at the return)
C15_OperandCount ==
    /\ \A name \in {"cm", "Tm", "Td", "TD"} :
        /\ Invalid(name) =>
            /\ obs.err[1].fr.gs = obs.fr.gs
            /\ obs.err[1].fr.tlm = obs.fr.tlm
            /\ Len(events) = obs.nev
        /\ Done(name) => Len(obs.ops) = IF name \in {"cm", "Tm"} THEN 6 ELSE 2
    /\ (lastOp \in {"cm", "Tm"} /\ Len(obs.ops) # 6) => Invalid(lastOp)
    /\ (lastOp \in {"Td", "TD"} /\ Len(obs.ops) # 2) => Invalid(lastOp)

\* Td with three operands inside a form XObject, after the text matrix and
\* the CTM were changed
C15_Witness ==
    /\ Invalid("Td")
    /\ Len(obs.ops) = 3
    /\ obs.depth = 2
    /\ obs.fr.tlm # Identity

\* the Tf just executed named a font without resource entry, or one whose
\* entry make_font rejects
BadTf ==
    /\ lastOp = "Tf"
    /\ obs.ops # <<>>
    /\ obs.ops[1] \notin obs.fr.font_table
    /\ ~(obs.ops[1] \in FontEntries(obs.fr.resources) /\ make_font_ok(obs.ops[1]))

\* C16: when Tf names a font whose resource entry is missing or whose
\* construction fails, process_stream returns an error value to its caller
\* and does not panic
C16_TfErrorNotPanic == BadTf => pc = "err"

\* C17: v executed while the current path is empty yields the error
\* InvalidStructure, not a panic
C17_VOnEmptyPath ==
    (lastOp = "v" /\ obs.fr.path = <<>>)
        => (pc = "err" /\ obs.err # <<>> /\ obs.err[1].kind = "InvalidStructure")

\* the ops of a path up to and including its last op that is not Close
RECURSIVE UpToLastDrawn(_)
UpToLastDrawn(path) ==
    IF path = <<>> \/ Last(path).op # "Close" THEN path
    ELSE UpToLastDrawn(Front(path))

\* v has just run on a path whose last op other than Close is a MoveTo,
\* LineTo or CurveTo
VAfterPoint ==
    /\ lastOp = "v"
    /\ has_current_point(UpToLastDrawn(obs.fr.path))

\* v has just run on a path whose last op other than Close is a Rect
VAfterRect ==
    /\ lastOp = "v"
    /\ UpToLastDrawn(obs.fr.path) # <<>>
    /\ Last(UpToLastDrawn(obs.fr.path)).op = "Rect"

\* C18: on a non-empty path v takes as first control point the end-point of
\* the last op that is not Close, and succeeds after m, l, h and after re
C18_VCurrentPoint ==
    /\ VAfterPoint =>
          /\ pc = "ops"
          /\ Top.path = Append(obs.fr.path,
                CurveTo(current_point(UpToLastDrawn(obs.fr.path))[1],
                        current_point(UpToLastDrawn(obs.fr.path))[2],
                        obs.ops[1], obs.ops[2], obs.ops[3], obs.ops[4]))
    /\ VAfterRect => pc = "ops"

\* C19: the nesting depth of process_stream never exceeds the cap 64, also
\* when a form XObject invokes itself through Do
C19_DepthCap == Len(frames) <= 64

\* a Do has just found its form XObject and entered it
Entered == lastOp = "Do" /\ pc = "ops"

\* a Do has just returned successfully
Returned == lastOp = "Do_return"

\* the caller's frame when it issued the Do that is returning
Caller == Last(obs.callers)

\* C20: Do interprets the form XObject with a fresh graphics state and with
\* its own /Resources, or the caller's when it has none; when it returns
\* the caller's gs, gs stack, tlm, path and font table are as before the Do
C20_DoFrame ==
    /\ [](Entered =>
          /\ Top.gs = InitGS
          /\ Top.gs.ctm = Identity
          /\ Top.gs.ts.font = NoFont
          /\ Top.gs_stack = <<>>
          /\ Top.path = <<>>
          /\ Top.tlm = Identity
          /\ Top.font_table = {}
          /\ Top.resources =
                IF XObjects[obs.ops[1]] # <<>> THEN XObjects[obs.ops[1]][1]
                ELSE frames[Len(frames) - 1].resources
          /\ frames[Len(frames) - 1] = obs.fr)
    /\ [][lastOp' = "Do_return" =>
          /\ frames'[Len(frames')].gs = Caller.gs
          /\ frames'[Len(frames')].gs_stack = Caller.gs_stack
          /\ frames'[Len(frames')].tlm = Caller.tlm
          /\ frames'[Len(frames')].path = Caller.path
          /\ frames'[Len(frames')].font_table = Caller.font_table
          /\ frames'[Len(frames')].resources = Caller.resources]_vars

\* a Do returned from a form XObject that had its own /Resources, had set a
\* font of its own and left a q unmatched, to a caller with a changed CTM
\* and a font of its own
C20_Witness ==
    /\ Returned
    /\ obs.fr.resources # Top.resources
    /\ obs.fr.gs_stack # <<>>
    /\ obs.fr.gs.ts.font # NoFont
    /\ obs.fr.gs.ts.font # Top.gs.ts.font
    /\ Top.gs.ctm # Identity

-----------------------------------------------------------------------------
(* PdfSimpleFont::new: the encoding and the widths of a simple font.
   Widths are in glyph units (1/1000 of the font size) *)

\* type1_encoding_parser::get_encoding_map returns an empty map, so for
\* /Subtype Type1 with a /FontFile stream the table is a copy of
\* PDF_DOC_ENCODING; Ok(None) otherwise.  desc: the FontDescriptor
load_font_file_encoding(desc, subtype) ==
    IF subtype = "Type1" /\ desc.FontFile
    THEN [some |-> TRUE, table |-> PDF_DOC_ENCODING]
    ELSE [some |-> FALSE, table |-> <<>>]

\* PdfSimpleFont::load_encoding on the font dictionary d
load_encoding_simple(d) ==
    IF d.Encoding # EncNone THEN load_encoding(d.Encoding, d.Subtype)
    ELSE LET e == IF d.FontDescriptor = <<>>
                  THEN [some |-> FALSE, table |-> <<>>]
                  ELSE load_font_file_encoding(d.FontDescriptor[1], d.Subtype)
         IN  IF e.some THEN [ok |-> TRUE, some |-> TRUE, table |-> e.table]
             ELSE load_encoding(EncNone, d.Subtype)

\* CORE_FONTS, as far as the font names used here go
is_core_font(name) == name \in {"Helvetica", "Courier"}

\* core_fonts::metrics() for a base font: (char code in StandardEncoding or
\* -1, width, glyph name) in the order of the list
CoreMetrics ==
    [ Helvetica |-> << <<32, 278, "space">>, <<65, 667, "A">>, <<-1, 768, "Ohm">> >>,
      Courier   |-> << <<32, 600, "space">>, <<65, 600, "A">> >> ]

\* the metric entries of base font name that assign a width to code i
metric_hits(name, e, i) ==
    LET ms == CoreMetrics[name] IN
    { k \in 1..Len(ms) :
        IF e.some
        THEN LET u == name_to_unicode(ms[k][3])
                 c == IF u = <<>> THEN 0 ELSE u[1]
             IN  i < Len(e.table) /\ e.table[i + 1] = c
        ELSE ms[k][1] >= 0 /\ ms[k][1] = i }

Max(S) == CHOOSE x \in S : \A y \in S : y <= x

\* load_core_font_widths: later entries of the list overwrite earlier ones
load_core_font_widths(name, e) ==
    [ i \in {c \in 0..255 : metric_hits(name, e, c) # {}} |->
        CoreMetrics[name][Max(metric_hits(name, e, i))][2] ]

\* the width map of load_widths: from /Widths when FirstChar, LastChar and
\* Widths are all readable (maybe_get gives None for an array with an
\* element that is no number), else from the core metrics, else empty.
\* /LastChar is read and not used.  FirstChar is not negative here, so the
\* cast of first_char + i to u32 keeps the value
load_widths(d, e) ==
    IF d.FirstChar # <<>> /\ d.LastChar # <<>> /\ d.Widths # <<>>
       /\ all_num(d.Widths[1])
    THEN LET ws == d.Widths[1]
             first == d.FirstChar[1]
         IN  [ c \in first..(first + Len(ws) - 1) |-> ws[c - first + 1].v ]
    ELSE IF is_core_font(d.BaseFont)
    THEN load_core_font_widths(d.BaseFont, e)
    ELSE <<>>

\* PdfSimpleFont::new on a font dictionary without ToUnicode and FontFile3
PdfSimpleFont_new(d) ==
    LET e == load_encoding_simple(d) IN
    IF ~e.ok THEN [kind |-> "Err"]
    ELSE [ kind |-> "Simple", encoding |-> NoEncoding,
           has_encoding |-> e.some, enc_table |-> e.table,
           has_unicode_map |-> FALSE, unicode_map |-> <<>>,
           widths |-> load_widths(d, e),
           fallback |-> IF d.MissingWidth = <<>> THEN 0 ELSE d.MissingWidth[1] ]

\* /FirstChar, /LastChar, /Widths of the font dictionaries
WidthEntries ==
    { <<<<>>, <<>>, <<>>>>,
      <<<<65>>, <<66>>, <<ObjsOf(<<500, 600>>)>>>>,
      <<<<65>>, <<65>>, <<ObjsOf(<<500, 600>>)>>>>,
      <<<<>>, <<66>>, <<ObjsOf(<<500, 600>>)>>>>,
      <<<<65>>, <<66>>, <<<<IntObj(500), NameObj("x")>>>>>> }

\* the font dictionaries
SimpleFontDicts ==
    { [ Subtype |-> st, BaseFont |-> bf, Encoding |-> enc,
        FontDescriptor |-> desc,
        FirstChar |-> w[1], LastChar |-> w[2], Widths |-> w[3],
        MissingWidth |-> mw ] :
        st \in {"Type1", "TrueType"}, bf \in {"Helvetica", "ABCDEF+Custom"},
        enc \in { EncNone, EncName("WinAnsiEncoding"),
                  EncDict("WinAnsiEncoding", OhmDifferences),
                  EncName("StandardEncoding") },
        desc \in { <<>>, <<[FontFile |-> FALSE]>>, <<[FontFile |-> TRUE]>> },
        w \in WidthEntries, mw \in { <<>>, <<300>> } }

\* the codes get_width is asked for
WidthCodes == {32, 65, 66, 67}

NotBuilt == <<>>

InitNew ==
    /\ dict \in SimpleFontDicts
    /\ font = NotBuilt
    /\ bytes = <<>>
    /\ pos = 0 /\ ret = None /\ prev = 0 /\ sum = 0 /\ calls = 0
    /\ decoded = NoDecoded
    /\ pc = "off" /\ page = 0 /\ npages = 0 /\ fail_at = 0 /\ frames = <<>>
    /\ cur = <<>> /\ events = <<>> /\ nops = 0 /\ lastOp = "" /\ hist = <<>>
    /\ obs = NoObs

\* make_font on the font dictionary
NewFont ==
    /\ font = NotBuilt
    /\ font' = PdfSimpleFont_new(dict)
    /\ UNCHANGED <<bytes, pos, ret, prev, sum, calls, decoded, dict>>
    /\ UNCHANGED docVars

\* font.get_width(c): bytes holds the code, ret the width
WidthCall ==
    /\ font # NotBuilt
    /\ font.kind # "Err"
    /\ \E c \in WidthCodes :
        /\ bytes' = <<c>>
        /\ ret' = <<get_width(font, c)>>
    /\ calls' = 1
    /\ UNCHANGED <<font, pos, prev, sum, decoded, dict>>
    /\ UNCHANGED docVars

NextNew == NewFont \/ WidthCall

SpecNew == InitNew /\ [][NextNew]_vars

\* the font has been built from a dictionary of subtype st without /Encoding
BuiltWithoutEncoding(st) ==
    /\ font # NotBuilt
    /\ dict.Subtype = st
    /\ dict.Encoding = EncNone

\* C22: a simple font of subtype Type1 without /Encoding has the encoding
\* None, whether or not its FontDescriptor has a /FontFile stream; subtype
\* TrueType without /Encoding gets the WinAnsi table
C22_Type1NoEncoding ==
    /\ BuiltWithoutEncoding("Type1") =>
          (font.kind = "Simple" /\ ~font.has_encoding)
    /\ BuiltWithoutEncoding("TrueType") =>
          (font.kind = "Simple" /\ font.has_encoding
              /\ font.enc_table = WinAnsiTable)

\* get_width has been asked for the code bytes[1] and returned ret[1]
Asked == font # NotBuilt /\ calls = 1

\* /FirstChar, /LastChar and /Widths are all present
HasWidths == dict.FirstChar # <<>> /\ dict.LastChar # <<>> /\ dict.Widths # <<>>

\* /MissingWidth, 0 when absent
MissingWidthOf(d) == IF d.MissingWidth = <<>> THEN 0 ELSE d.MissingWidth[1]

\* the standard metric of the glyph that the font's encoding (or, without
\* one, the metric list itself) puts at code c; <<>> when there is none
StandardWidth(c) ==
    LET ms == CoreMetrics[dict.BaseFont]
        at == { k \in 1..Len(ms) :
                  IF font.has_encoding
                  THEN name_to_unicode(ms[k][3]) = <<font.enc_table[c + 1]>>
                  ELSE ms[k][1] = c }
    IN  IF at = {} THEN <<>> ELSE <<ms[Max(at)][2]>>

\* C23: get_width(c) is Widths[c - FirstChar] when FirstChar, LastChar and
\* Widths are present and c is in FirstChar..=LastChar; the standard metric
\* of the glyph at c when they are absent and BaseFont is a standard font;
\* else MissingWidth (0 when absent).  A font with a Widths array takes no
\* width from the core metrics, and a code outside FirstChar..=LastChar
\* gets MissingWidth
C23_GetWidth ==
    Asked =>
        LET c == bytes[1]
            w == ret[1]
            mw == MissingWidthOf(dict)
        IN  /\ (HasWidths /\ c \in dict.FirstChar[1]..dict.LastChar[1]
                    /\ c - dict.FirstChar[1] < Len(dict.Widths[1])
                    /\ all_num(dict.Widths[1]))
                  => w = dict.Widths[1][c - dict.FirstChar[1] + 1].v
            /\ (HasWidths /\ c \notin dict.FirstChar[1]..dict.LastChar[1])
                  => w = mw
            /\ (~HasWidths /\ dict.Widths # <<>>) => w = mw
            /\ (dict.FirstChar = <<>> /\ dict.LastChar = <<>> /\ dict.Widths = <<>>)
                  => IF is_core_font(dict.BaseFont) /\ StandardWidth(c) # <<>>
                     THEN w = StandardWidth(c)[1]
                     ELSE w = mw

-----------------------------------------------------------------------------
(* PdfCIDFont::load_widths: the /W array and /DW of a CIDFont dictionary *)

ArrObj(a) == [t |-> "Array", v |-> a]

\* the widths cid + j -> array[j] of an entry  c [w0 w1 ...]
list_widths(cid, array) ==
    [ c \in cid..(cid + Len(array) - 1) |-> array[c - cid + 1].v ]

\* the widths of an entry  c_first c_last w
range_widths(c_first, c_last, width) == [ c \in c_first..c_last |-> width ]

\* an entry of /W that keeps the width a CID already has
W_turn_first_wins(w, i, widths) ==
    IF ~(i < Len(w)) THEN [status |-> "done", i |-> i, widths |-> widths]
    ELSE IF i + 1 < Len(w)
    THEN IF w[i + 2].t = "Array"
         THEN IF w[i + 1].t # "Integer" \/ ~all_num(w[i + 2].v)
              THEN [status |-> "err", i |-> i, widths |-> <<>>]
              ELSE [status |-> "run", i |-> i + 2,
                    widths |-> widths @@ list_widths(w[i + 1].v, w[i + 2].v)]
         ELSE IF i + 2 < Len(w)
         THEN IF w[i + 1].t # "Integer" \/ w[i + 2].t # "Integer"
                   \/ w[i + 3].t \notin {"Integer", "Real"}
              THEN [status |-> "err", i |-> i, widths |-> <<>>]
              ELSE [status |-> "run", i |-> i + 3,
                    widths |-> widths @@
                        range_widths(w[i + 1].v, w[i + 2].v, w[i + 3].v)]
         ELSE [status |-> "done", i |-> i, widths |-> widths]
    ELSE [status |-> "done", i |-> i, widths |-> widths]

\* one turn of `while i < w_array.len()`, i counting from 0: the loop is
\* left ("done") when the condition fails or at a break, the function is
\* left with an Err ("err") at a `?`, and otherwise i and widths are updated
W_turn(w, i, widths) ==
    IF ~(i < Len(w)) THEN [status |-> "done", i |-> i, widths |-> widths]
    ELSE IF i + 1 < Len(w)
    THEN IF w[i + 2].t = "Array"
         THEN IF w[i + 1].t # "Integer" \/ ~all_num(w[i + 2].v)
              THEN [status |-> "err", i |-> i, widths |-> <<>>]
              ELSE [status |-> "run", i |-> i + 2,
                    widths |-> list_widths(w[i + 1].v, w[i + 2].v) @@ widths]
         ELSE IF i + 2 < Len(w)
         THEN IF w[i + 1].t # "Integer" \/ w[i + 2].t # "Integer"
                   \/ w[i + 3].t \notin {"Integer", "Real"}
              THEN [status |-> "err", i |-> i, widths |-> <<>>]
              ELSE [status |-> "run", i |-> i + 3,
                    widths |-> range_widths(w[i + 1].v, w[i + 2].v, w[i + 3].v)
                                  @@ widths]
         ELSE [status |-> "done", i |-> i, widths |-> widths]
    ELSE [status |-> "done", i |-> i, widths |-> widths]

MaxEntries == 3     \* most entries of a /W array

\* entries of /W: two lists, two ranges, and a list whose CID is a name
WEntries ==
    { <<IntObj(1), ArrObj(ObjsOf(<<500, 600>>))>>,
      <<IntObj(2), ArrObj(ObjsOf(<<700>>))>>,
      <<IntObj(1), IntObj(2), IntObj(800)>>,
      <<IntObj(2), IntObj(3), IntObj(900)>>,
      <<NameObj("x"), ArrObj(ObjsOf(<<500>>))>> }

\* what may follow the last entry
WTails == { <<>>, <<IntObj(1)>>, <<IntObj(1), IntObj(2)>> }

RECURSIVE Flatten(_)
Flatten(ss) == IF ss = <<>> THEN <<>> ELSE Head(ss) \o Flatten(Tail(ss))

WArrays ==
    { Flatten(es) \o t : es \in SeqsUpTo(WEntries, MaxEntries), t \in WTails }

\* the CIDFont dictionaries: /W, and /DW or none
CidDicts == { [W |-> w, DW |-> dw] : w \in WArrays, dw \in { <<>>, <<500>> } }

CidCodes == 0..4

\* load_widths starts: default_width is /DW or 1000, widths is empty, i = 0
InitW ==
    /\ dict \in CidDicts
    /\ font = [ kind |-> "CID", status |-> "run", widths |-> <<>>,
                fallback |-> IF dict.DW = <<>> THEN 1000 ELSE dict.DW[1] ]
    /\ bytes = <<>>
    /\ pos = 0 /\ ret = None /\ prev = 0 /\ sum = 0 /\ calls = 0
    /\ decoded = NoDecoded
    /\ pc = "off" /\ page = 0 /\ npages = 0 /\ fail_at = 0 /\ frames = <<>>
    /\ cur = <<>> /\ events = <<>> /\ nops = 0 /\ lastOp = "" /\ hist = <<>>
    /\ obs = NoObs

\* one turn of the loop of load_widths; pos is i
W_step ==
    /\ font.status = "run"
    /\ LET r == W_turn(dict.W, pos, font.widths) IN
        /\ font' = [font EXCEPT !.status = r.status, !.widths = r.widths]
        /\ pos' = r.i
        /\ prev' = pos
    /\ UNCHANGED <<bytes, ret, sum, calls, decoded, dict>>
    /\ UNCHANGED docVars

\* PdfCIDFont::get_width(c) on the font built: bytes holds the code, ret
\* the width
CidWidthCall ==
    /\ font.status = "done"
    /\ \E c \in CidCodes :
        /\ bytes' = <<c>>
        /\ ret' = <<get_width(font, c)>>
    /\ calls' = 1
    /\ UNCHANGED <<font, pos, prev, sum, decoded, dict>>
    /\ UNCHANGED docVars

NextW == W_step \/ CidWidthCall

\* the loop is not suspended: a turn that can be taken is taken
SpecW == InitW /\ [][NextW]_vars /\ WF_vars(W_step)

\* the complete entries of w from index i (counting from 0) on, each as the
\* widths it assigns; a tail too short for an entry is left out
RECURSIVE CompleteEntries(_, _)
CompleteEntries(w, i) ==
    IF i + 2 <= Len(w) /\ w[i + 2].t = "Array"
    THEN <<list_widths(w[i + 1].v, w[i + 2].v)>> \o CompleteEntries(w, i + 2)
    ELSE IF i + 3 <= Len(w)
    THEN <<range_widths(w[i + 1].v, w[i + 2].v, w[i + 3].v)>>
             \o CompleteEntries(w, i + 3)
    ELSE <<>>

\* the width the entries es give to CID c, the last entry winning; dw when
\* none assigns c
WidthFrom(es, c, dw) ==
    LET at == { k \in 1..Len(es) : c \in DOMAIN es[k] } IN
    IF at = {} THEN dw ELSE es[Max(at)][c]

\* /DW, 1000 when absent
DWOf(d) == IF d.DW = <<>> THEN 1000 ELSE d.DW[1]

\* C24: parsing /W terminates; the index advances by 2 over an entry
\* (cid, [w0 w1 ...]) and by 3 over an entry (c_first, c_last, w); a tail too
\* short for an entry is dropped without error and the entries before it are
\* kept; a later entry overrides an earlier one; a CID not assigned gets /DW
\* (1000 when absent)
C24_CidWidths ==
    /\ <>(font.status # "run")
    /\ [][(font.status = "run" /\ font'.status = "run") =>
            pos' - pos = IF dict.W[pos + 2].t = "Array" THEN 2 ELSE 3]_vars
    /\ [](font.status = "done" =>
            /\ pos + 3 > Len(dict.W)
            /\ \A c \in CidCodes :
                  get_width(font, c)
                      = WidthFrom(CompleteEntries(dict.W, 0), c, DWOf(dict))
            /\ calls = 1 =>
                  ret[1] = WidthFrom(CompleteEntries(dict.W, 0), bytes[1], DWOf(dict)))

\* a /W array of three entries and a tail that is dropped has been parsed,
\* and get_width was asked for a CID that two entries give different widths
C24_Witness ==
    /\ font.status = "done"
    /\ calls = 1
    /\ pos < Len(dict.W)
    /\ Len(CompleteEntries(dict.W, 0)) = 3
    /\ \E j, k \in 1..3 :
          /\ j < k
          /\ bytes[1] \in DOMAIN CompleteEntries(dict.W, 0)[j]
          /\ bytes[1] \in DOMAIN CompleteEntries(dict.W, 0)[k]
          /\ CompleteEntries(dict.W, 0)[j][bytes[1]]
                # CompleteEntries(dict.W, 0)[k][bytes[1]]

-----------------------------------------------------------------------------
(* apply_encoding_differences, one entry of /Differences at a time *)

\* an entry that is an unknown glyph name leaves the current code as it is
difference_turn_stays(table, code, obj) ==
    IF obj.t = "Integer" THEN [ok |-> TRUE, table |-> table, code |-> obj.v]
    ELSE IF obj.t = "Name"
    THEN LET unicode == name_to_unicode(obj.v) IN
         IF unicode # <<>>
         THEN [ok |-> TRUE,
               table |-> IF code >= 0 /\ code < Len(table)
                         THEN [table EXCEPT ![code + 1] = unicode[1]]
                         ELSE table,
               code |-> code + 1]
         ELSE [ok |-> TRUE, table |-> table, code |-> code]
    ELSE [ok |-> FALSE, table |-> table, code |-> code]

\* one turn of `for obj in differences`
difference_turn(table, code, obj) ==
    IF obj.t = "Integer" THEN [ok |-> TRUE, table |-> table, code |-> obj.v]
    ELSE IF obj.t = "Name"
    THEN LET unicode == name_to_unicode(obj.v) IN
         [ok |-> TRUE,
          table |-> IF unicode # <<>> /\ code >= 0 /\ code < Len(table)
                    THEN [table EXCEPT ![code + 1] = unicode[1]]
                    ELSE table,
          code |-> code + 1]
    ELSE [ok |-> FALSE, table |-> table, code |-> code]

MaxDiff == 4        \* most entries of a /Differences array

\* the entries of /Differences: codes in and out of 0..255, known glyph
\* names, an unknown one, and an object that is neither
DiffObjs ==
    { IntObj(65), IntObj(255), IntObj(-1),
      NameObj("Ohm"), NameObj("A"), NameObj("notdef"), StrObj(<<65>>) }

\* the table load_encoding hands to apply_encoding_differences
BaseTables == { PDF_DOC_ENCODING, WinAnsiTable }

InitDiff ==
    /\ dict \in { [base |-> b, differences |-> d] :
                    b \in BaseTables, d \in SeqsUpTo(DiffObjs, MaxDiff) }
    /\ font = [kind |-> "Differences", status |-> "run", table |-> dict.base,
               code |-> 0]
    /\ bytes = <<>>
    /\ pos = 0 /\ ret = None /\ prev = 0 /\ sum = 0 /\ calls = 0
    /\ decoded = NoDecoded
    /\ pc = "off" /\ page = 0 /\ npages = 0 /\ fail_at = 0 /\ frames = <<>>
    /\ cur = <<>> /\ events = <<>> /\ nops = 0 /\ lastOp = "" /\ hist = <<>>
    /\ obs = NoObs

\* the next entry of /Differences is worked; pos counts the entries done
Diff_step ==
    /\ font.status = "run"
    /\ pos < Len(dict.differences)
    /\ LET r == difference_turn(font.table, font.code, dict.differences[pos + 1]) IN
        font' = [font EXCEPT !.status = IF r.ok THEN "run" ELSE "err",
                             !.table = r.table, !.code = r.code]
    /\ pos' = pos + 1
    /\ prev' = pos
    /\ UNCHANGED <<bytes, ret, sum, calls, decoded, dict>>
    /\ UNCHANGED docVars

\* the loop is through: Ok(())
Diff_end ==
    /\ font.status = "run"
    /\ pos = Len(dict.differences)
    /\ font' = [font EXCEPT !.status = "done"]
    /\ UNCHANGED <<bytes, pos, ret, prev, sum, calls, decoded, dict>>
    /\ UNCHANGED docVars

NextDiff == Diff_step \/ Diff_end

SpecDiff == InitDiff /\ [][NextDiff]_vars

\* the entry worked by the step
Entry == dict.differences[pos + 1]

\* the entry worked by the step is a name the glyph list knows
KnownName == Entry.t = "Name" /\ Entry.v \in DOMAIN GlyphList

\* C25: applying /Differences keeps the table at 256 entries; an integer
\* sets the current code; every name adds one to it; only a known name at a
\* code in 0..=255 changes the table, and only the slot of that code
C25_Differences ==
    /\ [](Len(font.table) = 256)
    /\ [][(pos' = pos + 1 /\ font'.status = "run") =>
            /\ Entry.t = "Integer" =>
                  (font'.code = Entry.v /\ font'.table = font.table)
            /\ Entry.t = "Name" => font'.code = font.code + 1
            /\ (KnownName /\ font.code \in 0..255) =>
                  font'.table = [font.table EXCEPT ![font.code + 1] = GlyphList[Entry.v]]
            /\ ~(KnownName /\ font.code \in 0..255) =>
                  font'.table = font.table]_vars
    /\ [](font.status = "done" =>
            font.table = apply_encoding_differences(dict.base, dict.differences, 1, 0).table)

\* [255 /Ohm /A] has been applied: slot 255 holds the Ohm sign and the A at
\* code 256 changed nothing
C25_Witness ==
    /\ font.status = "done"
    /\ font.code = 257
    /\ font.table[256] = 8486
    /\ font.table = [dict.base EXCEPT ![256] = 8486]
    /\ NameObj("A") = dict.differences[Len(dict.differences)]

-----------------------------------------------------------------------------
(* HTMLOutput: the device as a function of the calls made on it.  file is
   the sequence of the positioned divs written; units as for PlainTextOutput *)

\* HTMLOutput::new
HTMLOutput_new ==
    [ file |-> <<>>,
      flip_ctm |-> Identity,
      last_ctm |-> Identity,
      buf_ctm |-> Identity,
      buf_font_size |-> 0,
      buf |-> <<>> ]

\* the characters & n b s p ;
Nbsp == <<38, 110, 98, 115, 112, 59>>

\* insert_nbsp from character i of input on; word_end as in the loop
RECURSIVE insert_nbsp_from(_, _, _)
insert_nbsp_from(input, i, word_end) ==
    IF i > Len(input) THEN <<>>
    ELSE IF input[i] = 32
    THEN (IF ~word_end \/ i = Len(input) \/ input[i + 1] = 32
          THEN Nbsp ELSE <<32>>)
             \o insert_nbsp_from(input, i + 1, FALSE)
    ELSE <<input[i]>> \o insert_nbsp_from(input, i + 1, TRUE)

insert_nbsp(input) == insert_nbsp_from(input, 1, FALSE)

\* flush_string: a div for a buffer that is not empty, placed by buf_ctm
\* and buf_font_size
flush_string(dev) ==
    IF dev.buf # <<>>
    THEN LET position == Then(dev.buf_ctm, dev.flip_ctm)
             vx == dev.buf_font_size * dev.buf_ctm[1] + dev.buf_font_size * dev.buf_ctm[3]
             vy == dev.buf_font_size * dev.buf_ctm[2] + dev.buf_font_size * dev.buf_ctm[4]
         IN  [dev EXCEPT !.file = Append(@, [ left |-> position[5],
                                              top |-> position[6],
                                              font_size |-> Sqrt(vx * vy),
                                              text |-> insert_nbsp(dev.buf) ]),
                         !.buf = <<>>]
    ELSE dev

html_begin_page(dev, media_box) ==
    [dev EXCEPT !.flip_ctm = <<1, 0, 0, -1, 0, media_box[4] - media_box[2]>>]

\* an end_page that leaves the buffer to the next page
html_end_page_no_flush(dev) == [dev EXCEPT !.last_ctm = Identity]

html_end_page(dev) ==
    [flush_string(dev) EXCEPT !.buf = <<>>, !.last_ctm = Identity]

\* output_character: trm.approx_eq(&self.last_ctm) is equality on the
\* numbers of the model
html_output_character(dev, trm, width, spacing, font_size, char) ==
    LET d == IF trm = dev.last_ctm
             THEN [dev EXCEPT !.buf = @ \o char]
             ELSE [flush_string(dev) EXCEPT !.buf = char,
                                            !.buf_font_size = font_size,
                                            !.buf_ctm = trm]
    IN  [d EXCEPT !.last_ctm = Then(trm, Translation(width * font_size + spacing, 0))]

\* the device after one call
html_call(dev, e) ==
    IF e.call = "begin_page" THEN html_begin_page(dev, e.media_box)
    ELSE IF e.call = "end_page" THEN html_end_page(dev)
    ELSE IF e.call = "output_character"
         THEN html_output_character(dev, e.trm, e.width, e.spacing, e.font_size, e.char)
         ELSE dev

\* the device after the calls ev[1..i], made on a fresh device
RECURSIVE html_after(_, _)
html_after(ev, i) ==
    IF i = 0 THEN HTMLOutput_new
    ELSE html_call(html_after(ev, i - 1), ev[i])

\* the number of calls `call` among ev
Count(ev, call) == Cardinality({ i \in 1..Len(ev) : ev[i].call = call })

InPage == Count(events, "begin_page") > Count(events, "end_page")

\* the output_character calls made: A at the origin and a space that goes
\* on from it, and on another line an empty string, an A and a B that goes
\* on from it, in another font size
HtmlChars ==
    { [trm |-> Identity, font_size |-> 12, char |-> <<65>>],
      [trm |-> <<1, 0, 0, 1, 6000, 0>>, font_size |-> 12, char |-> <<32>>],
      [trm |-> <<1, 0, 0, 1, 0, 100000>>, font_size |-> 10, char |-> <<>>],
      [trm |-> <<1, 0, 0, 1, 0, 100000>>, font_size |-> 10, char |-> <<65>>],
      [trm |-> <<1, 0, 0, 1, 5000, 100000>>, font_size |-> 10, char |-> <<66>>] }

Html_begin_page ==
    /\ ~InPage
    /\ DevCall([ call |-> "begin_page",
                 page_num |-> Count(events, "begin_page") + 1,
                 media_box |-> <<0, 0, 612000, 792000>> ])

Html_output_character ==
    /\ InPage
    /\ \E c \in HtmlChars :
        DevCall([ call |-> "output_character", trm |-> c.trm, width |-> 500,
                  spacing |-> 0, font_size |-> c.font_size, char |-> c.char ])

Html_end_page ==
    /\ InPage
    /\ DevCall([call |-> "end_page"])

NextHtml == Html_begin_page \/ Html_output_character \/ Html_end_page

SpecHtml == InitPlain /\ [][NextHtml]_vars

\* the device before and after the last call
HtmlBefore == html_after(events, Len(events) - 1)

HtmlNow == html_after(events, Len(events))

\* text with every &nbsp; turned back into a space
RECURSIVE spaces_back(_)
spaces_back(text) ==
    IF text = <<>> THEN <<>>
    ELSE IF Len(text) >= 6 /\ SubSeq(text, 1, 6) = Nbsp
    THEN <<32>> \o spaces_back(SubSeq(text, 7, Len(text)))
    ELSE <<Head(text)>> \o spaces_back(Tail(text))

\* the texts of the divs, in order, as one string
DivText(file) == Flatten([i \in 1..Len(file) |-> spaces_back(file[i].text)])

\* the character strings received, in order, as one string
CharsOf(ev) ==
    Flatten([i \in 1..Len(ev) |->
        IF ev[i].call = "output_character" THEN ev[i].char ELSE <<>>])

\* C26: an output_character call whose matrix equals the running matrix
\* appends to the batch, any other flushes the batch and starts a new one;
\* after the call the running matrix is the call's matrix composed with
\* T(width * font_size + spacing, 0); after end_page the texts of the divs
\* are, in order, the characters received, and no div is empty
C26_HtmlBatches ==
    events # <<>> =>
        LET e == Last(events)
            before == HtmlBefore
            now == html_call(before, e)
        IN  /\ e.call = "output_character" =>
                  /\ IF e.trm = before.last_ctm
                     THEN /\ now.buf = before.buf \o e.char
                          /\ now.file = before.file
                     ELSE /\ now.buf = e.char
                          /\ Len(now.file) =
                                Len(before.file) + (IF before.buf = <<>> THEN 0 ELSE 1)
                          /\ DivText(now.file) = DivText(before.file) \o before.buf
                  /\ now.last_ctm =
                        Then(e.trm, Translation(e.width * e.font_size + e.spacing, 0))
            /\ e.call = "end_page" =>
                  /\ DivText(now.file) = CharsOf(events)
                  /\ now.buf = <<>>
            /\ \A i \in 1..Len(now.file) : now.file[i].text # <<>>

\* a page has ended on which a batch of two characters, one of them a
\* space, an empty string and a batch after it were received
C26_Witness ==
    /\ events # <<>>
    /\ Last(events).call = "end_page"
    /\ Len(HtmlNow.file) = 2
    /\ HtmlNow.file[1].text = <<65>> \o Nbsp
    /\ \E i \in 1..Len(events) :
          events[i].call = "output_character" /\ events[i].char = <<>>

\* the div of a batch: placed by the matrix and the font size of the first
\* character of the batch
DivOf(batch, flip_ctm) ==
    LET position == Then(batch.trm, flip_ctm)
        vx == batch.font_size * batch.trm[1] + batch.font_size * batch.trm[3]
        vy == batch.font_size * batch.trm[2] + batch.font_size * batch.trm[4]
    IN  [ left |-> position[5], top |-> position[6],
          font_size |-> Sqrt(vx * vy), text |-> insert_nbsp(batch.text) ]

\* the divs due after the calls ev[1..i]: divs written, the batch open (if
\* any), the running matrix and the flip of the page
RECURSIVE DivsDue(_, _)
DivsDue(ev, i) ==
    IF i = 0
    THEN [divs |-> <<>>, batch |-> <<>>, running |-> Identity, flip |-> Identity]
    ELSE LET b == DivsDue(ev, i - 1)
             e == ev[i]
             flushed == IF b.batch # <<>> /\ b.batch[1].text # <<>>
                        THEN Append(b.divs, DivOf(b.batch[1], b.flip))
                        ELSE b.divs
         IN  IF e.call = "begin_page"
             THEN [b EXCEPT !.flip = <<1, 0, 0, -1, 0, e.media_box[4] - e.media_box[2]>>]
             ELSE IF e.call = "end_page"
             THEN [b EXCEPT !.divs = flushed, !.batch = <<>>, !.running = Identity]
             ELSE IF e.call = "output_character"
             THEN [b EXCEPT
                     !.divs = IF b.batch # <<>> /\ e.trm = b.running THEN @ ELSE flushed,
                     !.batch = IF b.batch # <<>> /\ e.trm = b.running
                               THEN <<[b.batch[1] EXCEPT !.text = @ \o e.char]>>
                               ELSE <<[trm |-> e.trm, font_size |-> e.font_size,
                                       text |-> e.char]>>,
                     !.running = Then(e.trm,
                         Translation(e.width * e.font_size + e.spacing, 0))]
             ELSE b

\* C27: every div written is placed by the matrix and the font size of the
\* first character of its own batch, on every page; a batch whose first
\* character has the identity matrix the device holds at construction and
\* after end_page inherits nothing from an earlier batch or page
C27_DivPlacement == HtmlNow.file = DivsDue(events, Len(events)).divs

-----------------------------------------------------------------------------
(* Claims about text positioning *)

\* the operation `name` has just run to its end
Ran(name) == lastOp = name /\ pc = "ops"

\* the step made exactly the device call end_line
OneEndLine ==
    /\ Len(events) = obs.nev + 1
    /\ Last(events) = [call |-> "end_line"]

\* C21: Tm, Td, TD and T* each emit exactly one end_line and leave gs.ts.tm
\* equal to the new tlm: M(a..f) for Tm, the old tlm composed with T(tx, ty)
\* for Td and TD (TD setting the leading to -ty), with T(0, -leading) for T*;
\* BT and ET set tlm and gs.ts.tm to the identity and emit no event
C21_TextPositioning ==
    /\ Ran("Tm") =>
          /\ OneEndLine
          /\ Top.tlm = <<obs.ops[1].v, obs.ops[2].v, obs.ops[3].v,
                         obs.ops[4].v, obs.ops[5].v, obs.ops[6].v>>
          /\ Top.gs.ts.tm = Top.tlm
    /\ Ran("Td") =>
          /\ OneEndLine
          /\ Top.tlm = Then(obs.fr.tlm, Translation(obs.ops[1].v, obs.ops[2].v))
          /\ Top.gs.ts.tm = Top.tlm
          /\ Top.gs.ts.leading = obs.fr.gs.ts.leading
    /\ Ran("TD") =>
          /\ OneEndLine
          /\ Top.tlm = Then(obs.fr.tlm, Translation(obs.ops[1].v, obs.ops[2].v))
          /\ Top.gs.ts.tm = Top.tlm
          /\ Top.gs.ts.leading = 0 - obs.ops[2].v
    /\ Ran("T*") =>
          /\ OneEndLine
          /\ Top.tlm = Then(obs.fr.tlm, Translation(0, 0 - obs.fr.gs.ts.leading))
          /\ Top.gs.ts.tm = Top.tlm
    /\ (Ran("BT") \/ Ran("ET")) =>
          /\ Len(events) = obs.nev
          /\ Top.tlm = Identity
          /\ Top.gs.ts.tm = Identity

\* T* has run with a leading set, from a state where a Q had left gs.ts.tm
\* different from tlm
C21_Witness ==
    /\ Ran("T*")
    /\ obs.fr.gs.ts.leading # 0
    /\ obs.fr.gs.ts.tm # obs.fr.tlm
    /\ obs.fr.tlm # Identity

-----------------------------------------------------------------------------
(* Claims about show_text and a string the font cannot read to its end *)

\* what next_char yields from position p of B on, up to its first None
RECURSIVE Readable(_, _, _)
Readable(f, B, p) ==
    LET r == next_char(f, B, p) IN
    IF r.ret = None THEN <<>>
    ELSE <<[c |-> r.ret[1], length |-> r.ret[2], next |-> r.pos]>>
             \o Readable(f, B, r.pos)

\* the text matrix tm after the characters cs[i..] were shown under frame fr
RECURSIVE AfterShown(_, _, _)
AfterShown(fr, cs, i) ==
    IF i > Len(cs) THEN fr.gs.ts.tm
    ELSE AfterShown(char_advance(fr, cs[i].c, cs[i].length), cs, i + 1)

\* the font of the string being shown
TextFont == Fonts[Top.gs.ts.font[1]]

\* the device calls show_text has made for the string so far
TextCalls == SubSeq(events, obs.start + 2, Len(events))

\* C28: show_text stops at the first cursor position where next_char returns
\* None: it makes no output_character call for that position or for any byte
\* behind it, it still calls end_word, the text matrix is advanced by the
\* characters shown before that position only, and it returns Ok
C28_StopAtNone ==
    /\ [][(pc = "show" /\ next_char(TextFont, cur.s, cur.pos).ret = None) =>
            /\ events' = Append(events, [call |-> "end_word"])
            /\ frames' = frames
            /\ pc' = "ops"]_vars
    /\ [](Ran("end_word") =>
            LET cs == Readable(TextFont, obs.s, 0)
                tm0 == IF obs.tms = <<>> THEN Top.gs.ts.tm ELSE obs.tms[1]
            IN  /\ Len(TextCalls) = Len(cs) + 1
                /\ \A i \in 1..Len(cs) :
                      /\ TextCalls[i].call = "output_character"
                      /\ TextCalls[i].char = decode_char(TextFont, cs[i].c)
                /\ Last(TextCalls) = [call |-> "end_word"]
                /\ Len(obs.tms) = Len(cs)
                /\ Top.gs.ts.tm =
                      AfterShown([Top EXCEPT !.gs.ts.tm = tm0], cs, 1))

\* show_text has returned from a string of which it showed the first
\* character and met a byte that is no code with one more byte behind it
C28_Witness ==
    /\ Ran("end_word")
    /\ LET cs == Readable(TextFont, obs.s, 0) IN
          /\ Len(cs) = 1
          /\ cs[1].next + 1 < Len(obs.s)
          /\ Top.gs.ts.tm # obs.tms[1]

-----------------------------------------------------------------------------
(* Claims about the path a painting operator hands to the device *)

\* the PathOp an operator appends
KindOf(name) ==
    CASE name = "m" -> "MoveTo"
      [] name = "l" -> "LineTo"
      [] name \in {"c", "v", "y"} -> "CurveTo"
      [] name = "h" -> "Close"
      [] name = "re" -> "Rect"

IsBuilder(name) == name \in PathBuilders

\* path holds one op for each path-building operator of built, in order
BuiltBy(path, built) ==
    LET names == SelectSeq(built, IsBuilder) IN
    /\ Len(path) = Len(names)
    /\ \A i \in 1..Len(names) : path[i].op = KindOf(names[i])

\* C29: the path S, f or F hands to the device consists of exactly the ops
\* appended since the most recent S, f, F or n of the same content stream
\* (or since the stream began), in order; the ignored painting operators s,
\* B, B*, b and f* call neither stroke nor fill and leave the path as it is,
\* so that what was built before them is part of the path the next S, f or F
\* passes on
C29_PathSincePaint ==
    /\ (lastOp \in {"S", "f", "F"} /\ pc = "ops") =>
          /\ Last(events).call = (IF lastOp = "S" THEN "stroke" ELSE "fill")
          /\ BuiltBy(Last(events).path, obs.fr.built)
    /\ Ran("ignored_paint") =>
          /\ Len(events) = obs.nev
          /\ Top.path = obs.fr.path
    /\ pc = "ops" => \A i \in 1..Len(frames) : BuiltBy(frames[i].path, frames[i].built)

\* S has run inside a form XObject on a path of two ops with an ignored
\* painting operator between them
C29_Witness ==
    /\ Ran("S")
    /\ Len(frames) = 2
    /\ Len(obs.fr.built) = 3
    /\ obs.fr.built[2] = "ignored_paint"
    /\ Len(Last(events).path) = 2

-----------------------------------------------------------------------------
(* Claims about q and Q and the locals outside gs *)

\* the frame but for gs and the graphics-state stack
Outside(fr) == [fr EXCEPT !.gs = <<>>, !.gs_stack = <<>>]

\* the stream so far is q, Td tx ty, Q: three operators, the last a Q that
\* found the initial gs on the stack, tlm a translation set by a Td run
\* after the q
AfterQTdQ ==
    /\ Ran("Q")
    /\ nops = 3
    /\ Len(frames) = 1
    /\ obs.fr.gs_stack = <<InitGS>>
    /\ obs.fr.tlm # Identity
    /\ obs.fr.gs.ts.tm = obs.fr.tlm

\* C30: q and Q change nothing but gs and the graphics-state stack and make
\* no device call: tlm, the path and the font table stay as they are.  After
\* q, Td tx ty, Q the text matrix gs.ts.tm is the one from before the q while
\* tlm keeps the translation of the Td, so gs.ts.tm differs from tlm
C30_SaveRestoreScope ==
    /\ Ran("q") =>
          /\ Outside(Top) = Outside(obs.fr)
          /\ Top.gs = obs.fr.gs
          /\ Top.gs_stack = Append(obs.fr.gs_stack, obs.fr.gs)
          /\ Len(events) = obs.nev
    /\ (Ran("Q") \/ Ran("Q_empty")) =>
          /\ Outside(Top) = Outside(obs.fr)
          /\ Len(events) = obs.nev
    /\ Ran("Q") => Top.gs = obs.q_gs
    /\ AfterQTdQ =>
          /\ Top.gs.ts.tm = Identity
          /\ Top.tlm = obs.fr.tlm
          /\ Top.gs.ts.tm # Top.tlm

\* the stream q, Td, Q has run and left gs.ts.tm different from tlm
C30_Witness == AfterQTdQ /\ Top.gs.ts.tm # Top.tlm

====
